---- MODULE Spec2Model ----
(***************************************************************************)
(* State-machine model of the MyPos MCP database server:                   *)
(*   src/mcp_server.js            the tool handlers (lines 1-746)          *)
(*   src/db_runners/QueryRunner.js the pool adapter and introspection      *)
(*                                                                         *)
(* Text is modelled as sequences: a free-form query is a sequence of       *)
(* one-character strings, a built statement is a sequence of tokens.       *)
(* A JavaScript value handed to a handler is a record                      *)
(*   [kind, keys, vals]  with kind in {"undefined", "string", "object"};   *)
(* for an object, keys/vals are Object.keys / Object.values in insertion   *)
(* order.                                                                  *)
(***************************************************************************)
EXTENDS Integers, Sequences, FiniteSets, TLC

VARIABLES
    db_type,    \* engine selector read at startup (mcp_server.js:20)
    tables,     \* the target database's catalog: table name -> [exists, cols]
    last,       \* the last finished tool invocation: op, args, envelope, statements
    ph,         \* the last direct application of makePlaceholders
    proc,       \* the server process: environment, startup phase, pool, cleanup runs
    reqs        \* crearTabla requests in flight, each at one of its awaits

vars == <<db_type, tables, last, ph, proc, reqs>>

-----------------------------------------------------------------------------
(* Bounds *)

MaxRegistros == 2   \* records in one insertarDatos / importarTabla call
MaxCount == 7       \* count argument of makePlaceholders
MaxOffset == 7      \* offset argument of makePlaceholders
MaxFilas == 2       \* rows of a table that one UPDATE / DELETE filter matches
MaxRequests == 2    \* crearTabla requests in flight at once

-----------------------------------------------------------------------------
(* Input universes *)

DbTypes == {"mysql", "pg", "postgresql"}
NombresTabla == {"t1", "t2"}
ArgTabla == NombresTabla \cup {""}
Columnas == {"id", "email"}
ArgColumna == Columnas \cup {""}
Valores == {"v1", "v2"}
Tipos == {"INT", "DATE"}
ArgTipo == Tipos \cup {""}
Restricciones == {"uq_email", "fk_cliente"}
ArgRestriccion == Restricciones \cup {""}

-----------------------------------------------------------------------------
(* Characters and free-form query text *)

IsSpace(c) == c \in {" ", "\t", "\n", "\r"}

RECURSIVE TrimStart(_)
TrimStart(s) ==
    IF s # <<>> /\ IsSpace(Head(s)) THEN TrimStart(Tail(s)) ELSE s

RECURSIVE TrimEnd(_)
TrimEnd(s) ==
    IF s # <<>> /\ IsSpace(s[Len(s)]) THEN TrimEnd(SubSeq(s, 1, Len(s) - 1)) ELSE s

\* String.prototype.trim
trim(s) == TrimEnd(TrimStart(s))

toLowerCase(c) ==
    CASE c = "S" -> "s"
      [] c = "E" -> "e"
      [] c = "L" -> "l"
      [] c = "C" -> "c"
      [] c = "T" -> "t"
      [] c = "D" -> "d"
      [] c = "R" -> "r"
      [] c = "O" -> "o"
      [] c = "P" -> "p"
      [] OTHER -> c

select == <<"s", "e", "l", "e", "c", "t">>

\* /select/i.test(s): the pattern without the ^ anchor
SelectRegexUnanchored(s) ==
    \E k \in 0..Len(s) :
        /\ Len(s) >= k + 6
        /\ \A i \in 1..6 : toLowerCase(s[k + i]) = select[i]

\* /^select/i.test(s)
SelectRegexTest(s) ==
    /\ Len(s) >= 6
    /\ \A i \in 1..6 : toLowerCase(s[i]) = select[i]

Pads == {<<>>, <<" ">>, <<"\n", "\t">>}

DropTableT1 == <<"d", "r", "o", "p", " ", "t", "a", "b", "l", "e", " ", "t", "1">>

\* what follows the first c in s
RECURSIVE AfterFirst(_, _)
AfterFirst(s, c) ==
    IF s = <<>> THEN <<>>
    ELSE IF Head(s) = c THEN Tail(s) ELSE AfterFirst(Tail(s), c)

\* the statement the server finds after the first ';' of a query text
SecondStatement(consulta) == trim(AfterFirst(consulta, ";"))

Bodies == {
    <<>>,
    <<"s", "e", "l">>,
    <<"s", "e", "l", "e", "c", "t", " ", "1">>,
    <<"S", "E", "L", "E", "C", "T", " ", "1">>,
    <<"S", "e", "L", "e", "c", "T", "*">>,
    <<"s", "e", "l", "e", "c", "t", "x">>,
    <<"s", "e", "l", "e", "c", " ", "t">>,
    <<"d", "r", "o", "p", " ", "t">>,
    <<"D", "R", "O", "P", " ", "s", "e", "l", "e", "c", "t">>,
    <<"(", "s", "e", "l", "e", "c", "t", ")">>,
    <<"s", "e", "l", "e", "c", "t", " ", "1", ";">> \o DropTableT1
}

Consultas == {pre \o body \o post : pre \in Pads, body \in Bodies, post \in Pads}

-----------------------------------------------------------------------------
(* Envelopes, statements *)

Ok(text) == [isError |-> FALSE, text |-> text, n |-> 0]
Err(text) == [isError |-> TRUE, text |-> text, n |-> 0]

NoParams == <<>>

\* a statement handed to the pool through query_runner.runQuery(sql)
RunQuery(text, raw) ==
    [via |-> "runQuery", text |-> text, raw |-> raw, params |-> NoParams]

NoCall == [op |-> "none", args |-> [none |-> TRUE], env |-> Ok(""), stmts |-> <<>>]

Call(op, args, env, stmts) == [op |-> op, args |-> args, env |-> env, stmts |-> stmts]

\* a finished invocation together with the rows its INSERTs left in the table
CallStored(op, args, env, stmts, stored) ==
    [op |-> op, args |-> args, env |-> env, stmts |-> stmts, stored |-> stored]

NoPh == [engine |-> "", count |-> 0, offset |-> 0, tokens |-> <<>>]

Requests == 1..MaxRequests

\* a request slot with no crearTabla call in it
IdleReq == [pc |-> "idle", nombreTabla |-> "", columnas |-> <<>>,
            stmts |-> <<>>, env |-> Ok("")]

NoReqs == [r \in Requests |-> IdleReq]

-----------------------------------------------------------------------------
(* The server process *)

Signals == {"SIGINT", "SIGTERM"}

\* no runQuery / runQueryWithParams call yet.  outcome: none, rows, error,
\* pool-closed; ran: the database executed the statement; closed, probe,
\* transport: closeDone, probe and transport of the process when the call began
NoResult ==
    [outcome |-> "none", via |-> "", ran |-> FALSE,
     closed |-> FALSE, probe |-> "none", transport |-> FALSE]

\* the process before the module body of mcp_server.js has run
Boot(port) ==
    [DB_PORT |-> port,
     phase |-> "boot",          \* boot, aborted, serving, exited
     fatal |-> "",              \* what aborted the startup
     pool |-> "none",           \* query_runner.pool as the driver sees it: none, open, ended
     engine |-> "",             \* the driver the pool was built with
     registered |-> FALSE,      \* the server.tool registrations have run
     transport |-> FALSE,       \* server.connect(transport) has resolved
     probe |-> "none",          \* testConnection: none, pinging, ok, failed
     logged |-> FALSE,          \* console.error of the probe failure
     checkedOut |-> 0,          \* connections checked out of the pool
     cleanup |-> [s \in Signals |-> "idle"],
     closeCalls |-> 0,          \* calls of closePool()
     endCalls |-> 0,            \* calls of pool.end()
     closeDone |-> FALSE,       \* a closePool() call has completed
     closeFailed |-> FALSE,     \* a closePool() call has thrown
     result |-> NoResult]       \* the last runQuery / runQueryWithParams call

\* the process once startup and the connectivity probe are through
Serving(engine) ==
    [Boot("3306") EXCEPT !.phase = "serving", !.pool = "open", !.engine = engine,
                         !.registered = TRUE, !.transport = TRUE, !.probe = "ok"]

\* the driver the QueryRunner constructor picks (QueryRunner.js:15-21)
DriverOf(t) == IF t = "mysql" THEN "mysql" ELSE "pg"

-----------------------------------------------------------------------------
(* Initial state *)

Absent == [exists |-> FALSE, cols |-> <<>>]
Table(cols) == [exists |-> TRUE, cols |-> cols]

InitTables == {
    [t \in NombresTabla |-> Absent],
    [t \in NombresTabla |-> IF t = "t1" THEN Table(<<"id">>) ELSE Absent],
    [t \in NombresTabla |-> IF t = "t1" THEN Table(<<"id", "email">>) ELSE Table(<<"id">>)]
}

Init ==
    /\ db_type \in DbTypes
    /\ tables \in InitTables
    /\ last = NoCall
    /\ ph = NoPh
    /\ proc = Serving(DriverOf(db_type))
    /\ reqs = NoReqs

-----------------------------------------------------------------------------
(* Statement text: tokens *)

Kw(s) == [t |-> "kw", s |-> s, n |-> 0]
Raw(s) == [t |-> "raw", s |-> s, n |-> 0]

\* quoteIdent that wraps in double quotes whatever the engine
quoteIdentDouble(ident) == [t |-> "dquote", s |-> ident, n |-> 0]

\* the identifier wrapped in the engine's quote character (t names that character)
quoteIdent(ident) ==
    [t |-> IF db_type = "mysql" THEN "backtick" ELSE "dquote", s |-> ident, n |-> 0]

IsPlaceholder(tok) == tok.t = "ph"

-----------------------------------------------------------------------------
(* Confirmation phrases documented in the tool descriptions.  A phrase is   *)
(* the fixed text plus the names interpolated into it.                      *)

SinConfirmacion == [frase |-> "", nombres |-> <<>>]

PlantillaEliminarTabla(nombreTabla) ==
    [frase |-> "Confirmar eliminacion de la tabla", nombres |-> <<nombreTabla>>]

PlantillaEliminarColumna(tabla, columna) ==
    [frase |-> "Confirmar eliminacion de la columna _ de la tabla",
     nombres |-> <<columna, tabla>>]

PlantillaEliminarRestriccion(tabla, nombre) ==
    [frase |-> "Confirmar eliminacion de la restriccion _ de la tabla",
     nombres |-> <<nombre, tabla>>]

PlantillaEliminarClaveForanea(tabla, nombre) ==
    [frase |-> "Confirmar eliminacion de la clave foranea _ de la tabla",
     nombres |-> <<nombre, tabla>>]

PlantillaCambiarTipo(columna, nuevoTipo) ==
    [frase |-> "Confirmar cambio de tipo para la columna _ a",
     nombres |-> <<columna, nuevoTipo>>]

PlantillaCrudDelete(tabla) ==
    [frase |-> "Confirmar eliminacion de los registros filtrados en la tabla",
     nombres |-> <<tabla>>]

\* what a caller may send along: nothing, the exact phrase, the phrase for
\* another target, or the phrase in another letter case
Confirmaciones(exacta, otra) ==
    {SinConfirmacion, exacta, otra, [exacta EXCEPT !.frase = "confirmar (minusculas)"]}

-----------------------------------------------------------------------------
(* The database engine behind the pool: outcome of one statement *)

HasCol(t, c) == \E i \in 1..Len(t.cols) : t.cols[i] = c

RemoveCol(cols, c) == SelectSeq(cols, LAMBDA x : x # c)

\* ALTER TABLE t DROP COLUMN c is refused when the table or column is absent,
\* and by mysql when c is the table's only column
DropColumnFails(tabla, columna) ==
    \/ ~tables[tabla].exists
    \/ ~HasCol(tables[tabla], columna)
    \/ (db_type = "mysql" /\ Len(tables[tabla].cols) = 1)

-----------------------------------------------------------------------------
(* Placeholders *)

\* makePlaceholders that numbers from offset instead of offset + 1
makePlaceholdersOffByOne(engine, count, offset) ==
    IF engine = "mysql"
    THEN [i \in 1..count |-> [t |-> "ph", s |-> "?", n |-> 0]]
    ELSE [i \in 1..count |-> [t |-> "ph", s |-> "$", n |-> (i - 1) + offset]]

\* makePlaceholders that ignores its offset argument
makePlaceholdersNoOffset(engine, count, offset) ==
    IF engine = "mysql"
    THEN [i \in 1..count |-> [t |-> "ph", s |-> "?", n |-> 0]]
    ELSE [i \in 1..count |-> [t |-> "ph", s |-> "$", n |-> (i - 1) + 1]]

\* Array(count).fill('?')  /  Array.from({length: count}, (_, i) => `$${i + 1 + offset}`)
\* i below is the 1-based position, the source's i is i - 1
makePlaceholders(engine, count, offset) ==
    IF engine = "mysql"
    THEN [i \in 1..count |-> [t |-> "ph", s |-> "?", n |-> 0]]
    ELSE [i \in 1..count |-> [t |-> "ph", s |-> "$", n |-> (i - 1) + 1 + offset]]

\* Array.prototype.join over token groups: the groups with sep between them
RECURSIVE Join(_, _)
Join(groups, sep) ==
    IF Len(groups) = 0 THEN <<>>
    ELSE IF Len(groups) = 1 THEN groups[1]
    ELSE groups[1] \o <<sep>> \o Join(Tail(groups), sep)

-----------------------------------------------------------------------------
(* JavaScript values handed to the handlers *)

Undefined == [kind |-> "undefined", keys |-> <<>>, vals |-> <<>>]
Null == [kind |-> "null", keys |-> <<>>, vals |-> <<>>]
UnTexto == [kind |-> "string", keys |-> <<>>, vals |-> <<>>]
UnNumero == [kind |-> "number", keys |-> <<>>, vals |-> <<>>]
Obj(keys, vals) == [kind |-> "object", keys |-> keys, vals |-> vals]

IsInjective(f) == \A i, j \in DOMAIN f : f[i] = f[j] => i = j

\* the key orders of an object over the column names
KeySeqs == {ks \in UNION {[1..n -> Columnas] : n \in 0..Cardinality(Columnas)} : IsInjective(ks)}

Objetos == UNION {{Obj(ks, vs) : vs \in [1..Len(ks) -> Valores]} : ks \in KeySeqs}

\* z.record(z.any()).optional(), and what the handler's own typeof test still covers
ArgObjeto == Objetos \cup {Undefined, UnTexto}

\* !v || typeof v !== 'object'
NotAnObject(v) == v.kind # "object"

ObjectKeys(o) == o.keys
ObjectValues(o) == o.vals

\* o[c], undefined when o has no such key
Get(o, c) ==
    IF \E i \in 1..Len(o.keys) : o.keys[i] = c
    THEN o.vals[CHOOSE i \in 1..Len(o.keys) : o.keys[i] = c]
    ELSE "undefined"

\* o[k] = v
SetKey(o, k, v) ==
    IF \E i \in 1..Len(o.keys) : o.keys[i] = k
    THEN [o EXCEPT !.vals[CHOOSE i \in 1..Len(o.keys) : o.keys[i] = k] = v]
    ELSE [o EXCEPT !.keys = Append(@, k), !.vals = Append(@, v)]

-----------------------------------------------------------------------------
(* Statement construction *)

RunQueryWithParams(text, params) ==
    [via |-> "runQueryWithParams", text |-> text, raw |-> <<>>, params |-> params]

\* `INSERT INTO ${quoteIdent(tabla)} (${columnasStr}) VALUES (${placeholders})`
InsertSQL(tabla, cols, nvals) ==
    <<Kw("INSERT INTO"), quoteIdent(tabla), Kw("(")>>
    \o Join([i \in 1..Len(cols) |-> <<quoteIdent(cols[i])>>], Kw(","))
    \o <<Kw(") VALUES (")>>
    \o Join([i \in 1..nvals |-> <<makePlaceholders(db_type, nvals, 0)[i]>>], Kw(","))
    \o <<Kw(")")>>

\* `CREATE TABLE ${quoteIdent(nombreTabla)} (\n${columnasSQL}\n)`
CreateTableSQL(nombreTabla, columnas, tipo) ==
    RunQuery(<<Kw("CREATE TABLE"), quoteIdent(nombreTabla)>>
             \o Join([i \in 1..Len(columnas) |-> <<quoteIdent(columnas[i]), Raw(tipo)>>],
                     Kw(",")), <<>>)

\* Condiciones that restarts the numbering of every group at 1
CondicionesSinBase(keys, base) ==
    [i \in 1..Len(keys) |->
        <<quoteIdent(keys[i]), Kw("="), makePlaceholders(db_type, 1, i - 1)[1]>>]

\* Object.keys(o).map((col, i) => `${quoteIdent(col)} = ${makePlaceholders(db_type, 1, base + i)[0]}`)
Condiciones(keys, base) ==
    [i \in 1..Len(keys) |->
        <<quoteIdent(keys[i]), Kw("="), makePlaceholders(db_type, 1, base + (i - 1))[1]>>]

\* the columns an engine refuses because the table does not have them
TableExists(t) == t \in NombresTabla /\ tables[t].exists

UnknownCols(tabla, cols) ==
    \E i \in 1..Len(cols) : ~(TableExists(tabla) /\ HasCol(tables[tabla], cols[i]))

-----------------------------------------------------------------------------
(* QueryRunner.getTableColumns *)

ShowColumns(table) ==
    [via |-> "execute", text |-> <<Kw("SHOW COLUMNS FROM"), [t |-> "backtick", s |-> table, n |-> 0]>>,
     raw |-> <<>>, params |-> NoParams]

SelectColumnName(table) ==
    [via |-> "query",
     text |-> <<Kw("SELECT column_name FROM information_schema.columns WHERE table_name ="),
                [t |-> "ph", s |-> "$", n |-> 1]>>,
     raw |-> <<>>, params |-> <<table>>]

\* a relation of PostgreSQL's own catalog schema: information_schema.columns
\* has rows for it, and it is neither in schema public nor created by a tool
RelacionSistema == "pg_class"
ColumnasSistema == <<"oid", "relname">>

\* the catalog query itself, before the try/catch: threw = the pool call raised
CatalogColumns(table, falla) ==
    IF db_type = "mysql"
    THEN IF falla \/ table \notin NombresTabla \/ ~tables[table].exists
         THEN [threw |-> TRUE, cols |-> <<>>, stmts |-> <<ShowColumns(table)>>]
         ELSE [threw |-> FALSE, cols |-> tables[table].cols, stmts |-> <<ShowColumns(table)>>]
    ELSE IF falla
         THEN [threw |-> TRUE, cols |-> <<>>, stmts |-> <<SelectColumnName(table)>>]
         ELSE [threw |-> FALSE,
               \* WHERE table_name = $1, whatever the schema and the table type
               cols |-> IF table \in NombresTabla /\ tables[table].exists
                        THEN tables[table].cols
                        ELSE IF table = RelacionSistema THEN ColumnasSistema
                        ELSE <<>>,
               stmts |-> <<SelectColumnName(table)>>]

\* getTableColumns without its catch block
getTableColumnsNoCatch(table, falla) == CatalogColumns(table, falla)

getTableColumns(table, falla) ==
    LET r == CatalogColumns(table, falla) IN
    IF r.threw THEN [threw |-> FALSE, cols |-> <<>>, stmts |-> r.stmts] ELSE r

-----------------------------------------------------------------------------
(* Tool handlers.  Each handler runs only when no response is pending.      *)

Idle == last = NoCall

\* the envelope of the finished invocation goes back over the transport
Respond ==
    /\ last # NoCall
    /\ last' = NoCall
    /\ UNCHANGED <<db_type, tables, ph, proc, reqs>>

columnasDeTabla ==
  /\ Idle
  /\ \E tabla \in ArgTabla \cup {RelacionSistema}, falla \in BOOLEAN :
        /\ LET r == getTableColumns(tabla, falla) IN
           last' = [cols |-> r.cols] @@
                   Call("columnasDeTabla", [tabla |-> tabla, falla |-> falla],
                        IF r.threw THEN Err("Error al listar columnas: ")
                        ELSE IF Len(r.cols) = 0 THEN Ok("La tabla no tiene columnas.")
                        ELSE Ok("Columnas de la tabla"),
                        r.stmts)
        /\ UNCHANGED <<db_type, tables, ph, proc, reqs>>

consultarSQL ==
  /\ Idle
  /\ \E consulta \in Consultas, res \in {"throw", "empty", "rows"} :
        LET multi == SecondStatement(consulta) # <<>>
            \* pool.query(sql) without values runs every statement of the
            \* text; pool.execute prepares it and takes one statement only
            drops == /\ db_type # "mysql"
                     /\ res # "throw"
                     /\ SecondStatement(consulta) = DropTableT1
                     /\ tables["t1"].exists
        IN
        IF ~SelectRegexTest(trim(consulta))
        THEN /\ last' = Call("consultarSQL", [consulta |-> consulta],
                             Err("Solo se permiten consultas SELECT."), <<>>)
             /\ UNCHANGED <<db_type, tables, ph, proc, reqs>>
        ELSE /\ last' = Call("consultarSQL", [consulta |-> consulta],
                             CASE multi /\ drops -> Ok("Sin resultados.")
                               [] multi /\ ~drops -> Err("Error al consultar: ")
                               [] res = "throw" -> Err("Error al consultar: ")
                               [] res = "empty" -> Ok("Sin resultados.")
                               [] OTHER -> Ok("headers | rows"),
                             <<RunQuery(<<>>, consulta)>>)
             /\ tables' = IF drops THEN [tables EXCEPT !["t1"] = Absent] ELSE tables
             /\ UNCHANGED <<db_type, ph, proc, reqs>>

crearTabla ==
  /\ Idle
  /\ \E nombreTabla \in ArgTabla, columnas \in {<<>>, <<"id">>, <<"id", "email">>},
       tipo \in Tipos, fallaProbe \in BOOLEAN, falla \in BOOLEAN :
        /\ LET args == [nombreTabla |-> nombreTabla, columnas |-> columnas,
                        fallaProbe |-> fallaProbe, falla |-> falla]
               probe == getTableColumns(nombreTabla, fallaProbe)
               sql == CreateTableSQL(nombreTabla, columnas, tipo)
           IN
           IF nombreTabla = "" \/ Len(columnas) = 0
           THEN /\ last' = Call("crearTabla", args,
                                Err("Debes proporcionar un nombre de tabla y al menos una columna."), <<>>)
                /\ UNCHANGED tables
           ELSE IF ~probe.threw /\ Len(probe.cols) > 0
           THEN /\ last' = Call("crearTabla", args, Ok("La tabla ya existe."), probe.stmts)
                /\ UNCHANGED tables
           ELSE IF falla \/ tables[nombreTabla].exists
           THEN /\ last' = Call("crearTabla", args, Err("Error al crear la tabla: "),
                                probe.stmts \o <<sql>>)
                /\ UNCHANGED tables
           ELSE /\ last' = Call("crearTabla", args, Ok("Tabla creada exitosamente."),
                                probe.stmts \o <<sql>>)
                /\ tables' = [tables EXCEPT ![nombreTabla] = Table(columnas)]
        /\ UNCHANGED <<db_type, ph, proc, reqs>>

eliminarTabla ==
  /\ Idle
  /\ \E nombreTabla \in ArgTabla, otra \in NombresTabla, falla \in BOOLEAN :
      \E confirmacion \in Confirmaciones(PlantillaEliminarTabla(nombreTabla),
                                         PlantillaEliminarTabla(otra)) :
        /\ LET args == [nombreTabla |-> nombreTabla, confirmacion |-> confirmacion]
               sql == RunQuery(<<Kw("DROP TABLE IF EXISTS"), quoteIdent(nombreTabla)>>, <<>>)
           IN
           IF nombreTabla = ""
           THEN /\ last' = Call("eliminarTabla", args,
                                Err("Debes proporcionar el nombre de la tabla."), <<>>)
                /\ UNCHANGED tables
           ELSE IF falla
           THEN /\ last' = Call("eliminarTabla", args, Err("Error al eliminar la tabla: "), <<sql>>)
                /\ UNCHANGED tables
           ELSE /\ last' = Call("eliminarTabla", args, Ok("Tabla eliminada exitosamente."), <<sql>>)
                /\ tables' = [tables EXCEPT ![nombreTabla] = Absent]
        /\ UNCHANGED <<db_type, ph, proc, reqs>>

eliminarColumna ==
  /\ Idle
  /\ \E tabla \in ArgTabla, columna \in ArgColumna, otra \in Columnas, falla \in BOOLEAN :
      \E confirmacion \in Confirmaciones(PlantillaEliminarColumna(tabla, columna),
                                         PlantillaEliminarColumna(tabla, otra)) :
        /\ LET args == [tabla |-> tabla, columna |-> columna, confirmacion |-> confirmacion]
               sql == RunQuery(<<Kw("ALTER TABLE"), quoteIdent(tabla),
                                 Kw("DROP COLUMN"), quoteIdent(columna)>>, <<>>)
           IN
           IF tabla = "" \/ columna = ""
           THEN /\ last' = Call("eliminarColumna", args,
                                Err("Debes proporcionar la tabla y la columna."), <<>>)
                /\ UNCHANGED tables
           ELSE IF falla \/ DropColumnFails(tabla, columna)
           THEN /\ last' = Call("eliminarColumna", args, Err("Error al eliminar la columna: "), <<sql>>)
                /\ UNCHANGED tables
           ELSE /\ last' = Call("eliminarColumna", args, Ok("Columna eliminada exitosamente."), <<sql>>)
                /\ tables' = [tables EXCEPT ![tabla].cols = RemoveCol(@, columna)]
        /\ UNCHANGED <<db_type, ph, proc, reqs>>

eliminarRestriccionUnica ==
  /\ Idle
  /\ \E tabla \in ArgTabla, nombre \in ArgRestriccion, otra \in Restricciones, falla \in BOOLEAN :
      \E confirmacion \in Confirmaciones(PlantillaEliminarRestriccion(tabla, nombre),
                                         PlantillaEliminarRestriccion(tabla, otra)) :
        /\ LET args == [tabla |-> tabla, nombre |-> nombre, confirmacion |-> confirmacion]
               sql == RunQuery(<<Kw("ALTER TABLE"), quoteIdent(tabla),
                                 IF db_type = "mysql" THEN Kw("DROP INDEX") ELSE Kw("DROP CONSTRAINT"),
                                 quoteIdent(nombre)>>, <<>>)
           IN
           IF tabla = "" \/ nombre = ""
           THEN last' = Call("eliminarRestriccionUnica", args,
                             Err("Debes proporcionar la tabla y el nombre de la restriccion."), <<>>)
           ELSE IF falla \/ ~tables[tabla].exists
           THEN last' = Call("eliminarRestriccionUnica", args,
                             Err("Error al eliminar restriccion UNIQUE: "), <<sql>>)
           ELSE last' = Call("eliminarRestriccionUnica", args,
                             Ok("Restriccion UNIQUE eliminada exitosamente."), <<sql>>)
        /\ UNCHANGED <<db_type, tables, ph, proc, reqs>>

eliminarClaveForanea ==
  /\ Idle
  /\ \E tabla \in ArgTabla, nombre \in ArgRestriccion, otra \in Restricciones, falla \in BOOLEAN :
      \E confirmacion \in Confirmaciones(PlantillaEliminarClaveForanea(tabla, nombre),
                                         PlantillaEliminarClaveForanea(tabla, otra)) :
        /\ LET args == [tabla |-> tabla, nombre |-> nombre, confirmacion |-> confirmacion]
               sql == RunQuery(<<Kw("ALTER TABLE"), quoteIdent(tabla),
                                 IF db_type = "mysql" THEN Kw("DROP FOREIGN KEY") ELSE Kw("DROP CONSTRAINT"),
                                 quoteIdent(nombre)>>, <<>>)
           IN
           IF tabla = "" \/ nombre = ""
           THEN last' = Call("eliminarClaveForanea", args,
                             Err("Debes proporcionar la tabla y el nombre de la clave foranea."), <<>>)
           ELSE IF falla \/ ~tables[tabla].exists
           THEN last' = Call("eliminarClaveForanea", args,
                             Err("Error al eliminar clave foranea: "), <<sql>>)
           ELSE last' = Call("eliminarClaveForanea", args,
                             Ok("Clave foranea eliminada exitosamente."), <<sql>>)
        /\ UNCHANGED <<db_type, tables, ph, proc, reqs>>

cambiarTipoColumna ==
  /\ Idle
  /\ \E tabla \in ArgTabla, columna \in ArgColumna, nuevoTipo \in ArgTipo,
       otro \in Tipos, falla \in BOOLEAN :
      \E confirmacion \in Confirmaciones(PlantillaCambiarTipo(columna, nuevoTipo),
                                         PlantillaCambiarTipo(columna, otro)) :
        /\ LET args == [tabla |-> tabla, columna |-> columna, nuevoTipo |-> nuevoTipo,
                        confirmacion |-> confirmacion]
               sql == RunQuery(IF db_type = "mysql"
                               THEN <<Kw("ALTER TABLE"), quoteIdent(tabla), Kw("MODIFY COLUMN"),
                                      quoteIdent(columna), Raw(nuevoTipo)>>
                               ELSE <<Kw("ALTER TABLE"), quoteIdent(tabla), Kw("ALTER COLUMN"),
                                      quoteIdent(columna), Kw("TYPE"), Raw(nuevoTipo)>>, <<>>)
           IN
           IF tabla = "" \/ columna = "" \/ nuevoTipo = ""
           THEN last' = Call("cambiarTipoColumna", args,
                             Err("Debes proporcionar la tabla, columna y el nuevo tipo."), <<>>)
           ELSE IF falla \/ ~tables[tabla].exists \/ ~HasCol(tables[tabla], columna)
           THEN last' = Call("cambiarTipoColumna", args,
                             Err("Error al cambiar tipo de columna: "), <<sql>>)
           ELSE last' = Call("cambiarTipoColumna", args,
                             Ok("Tipo de columna cambiado exitosamente."), <<sql>>)
        /\ UNCHANGED <<db_type, tables, ph, proc, reqs>>

-----------------------------------------------------------------------------
(* agregarColumna, renombrarTabla, renombrarColumna and the ADD CONSTRAINT tools *)

\* the characters of the names the model passes around
Chars(name) ==
    CASE name = "" -> <<>>
      [] name = "t1" -> <<"t", "1">>
      [] name = "t2" -> <<"t", "2">>
      [] name = "id" -> <<"i", "d">>
      [] name = "email" -> <<"e", "m", "a", "i", "l">>
      [] name = "e-mail" -> <<"e", "-", "m", "a", "i", "l">>
      [] OTHER -> <<"?">>

\* [a-zA-Z0-9_]
IsWordChar(c) ==
    c \in {"a", "b", "c", "d", "e", "f", "g", "h", "i", "j", "k", "l", "m",
           "n", "o", "p", "q", "r", "s", "t", "u", "v", "w", "x", "y", "z",
           "A", "B", "C", "D", "E", "F", "G", "H", "I", "J", "K", "L", "M",
           "N", "O", "P", "Q", "R", "S", "T", "U", "V", "W", "X", "Y", "Z",
           "0", "1", "2", "3", "4", "5", "6", "7", "8", "9", "_"}

\* /[a-zA-Z0-9_]*/.test(name): without anchors and with * every name passes
NombreValidoStar(name) == TRUE

\* /^[a-zA-Z0-9_]+$/.test(name)
NombreValido(name) ==
    /\ Len(Chars(name)) > 0
    /\ \A i \in 1..Len(Chars(name)) : IsWordChar(Chars(name)[i])

agregarColumna ==
  /\ Idle
  /\ \E tabla \in ArgTabla, columna \in ArgColumna \cup {"e-mail"}, tipo \in Tipos,
       falla \in BOOLEAN :
        /\ LET args == [tabla |-> tabla, columna |-> columna, tipo |-> tipo]
               sql == RunQuery(<<Kw("ALTER TABLE"), quoteIdent(tabla), Kw("ADD COLUMN"),
                                 quoteIdent(columna), Raw(tipo)>>, <<>>)
           IN
           IF ~NombreValido(tabla) \/ ~NombreValido(columna)
           THEN /\ last' = Call("agregarColumna", args,
                                Err("Nombre de tabla o columna no valido."), <<>>)
                /\ UNCHANGED tables
           ELSE IF \/ falla \/ tabla \notin NombresTabla \/ ~tables[tabla].exists
                   \/ HasCol(tables[tabla], columna)
           THEN /\ last' = Call("agregarColumna", args, Err("Error al agregar la columna: "), <<sql>>)
                /\ UNCHANGED tables
           ELSE /\ last' = Call("agregarColumna", args, Ok("Columna agregada exitosamente."), <<sql>>)
                /\ tables' = [tables EXCEPT ![tabla].cols = Append(@, columna)]
        /\ UNCHANGED <<db_type, ph, proc, reqs>>

renombrarTabla ==
  /\ Idle
  /\ \E nombreActual \in ArgTabla, nuevoNombre \in ArgTabla, falla \in BOOLEAN :
        /\ LET args == [nombreActual |-> nombreActual, nuevoNombre |-> nuevoNombre]
               \* both branches of the engine test build the same text (lines 456-460)
               sql == RunQuery(<<Kw("ALTER TABLE"), quoteIdent(nombreActual),
                                 Kw("RENAME TO"), quoteIdent(nuevoNombre)>>, <<>>)
           IN
           IF nombreActual = "" \/ nuevoNombre = ""
           THEN /\ last' = Call("renombrarTabla", args,
                                Err("Debes proporcionar el nombre actual y el nuevo nombre."), <<>>)
                /\ UNCHANGED tables
           ELSE IF falla \/ ~tables[nombreActual].exists \/ tables[nuevoNombre].exists
           THEN /\ last' = Call("renombrarTabla", args, Err("Error al renombrar la tabla: "), <<sql>>)
                /\ UNCHANGED tables
           ELSE /\ last' = Call("renombrarTabla", args, Ok("Tabla renombrada exitosamente."), <<sql>>)
                /\ tables' = [tables EXCEPT ![nuevoNombre] = tables[nombreActual],
                                            ![nombreActual] = Absent]
        /\ UNCHANGED <<db_type, ph, proc, reqs>>

RenameCol(cols, a, n) == [i \in 1..Len(cols) |-> IF cols[i] = a THEN n ELSE cols[i]]

renombrarColumna ==
  /\ Idle
  /\ \E tabla \in ArgTabla, columnaActual \in ArgColumna, nuevoNombre \in ArgColumna,
       tipo \in ArgTipo, falla \in BOOLEAN :
        /\ LET args == [tabla |-> tabla, columnaActual |-> columnaActual,
                        nuevoNombre |-> nuevoNombre, tipo |-> tipo]
               sql == RunQuery(IF db_type = "mysql"
                               THEN <<Kw("ALTER TABLE"), quoteIdent(tabla), Kw("CHANGE"),
                                      quoteIdent(columnaActual), quoteIdent(nuevoNombre), Raw(tipo)>>
                               ELSE <<Kw("ALTER TABLE"), quoteIdent(tabla), Kw("RENAME COLUMN"),
                                      quoteIdent(columnaActual), Kw("TO"), quoteIdent(nuevoNombre)>>,
                               <<>>)
           IN
           IF tabla = "" \/ columnaActual = "" \/ nuevoNombre = "" \/ tipo = ""
           THEN /\ last' = Call("renombrarColumna", args,
                                Err("Debes proporcionar la tabla, columna actual, nuevo nombre y tipo."),
                                <<>>)
                /\ UNCHANGED tables
           ELSE IF \/ falla \/ ~tables[tabla].exists
                   \/ ~HasCol(tables[tabla], columnaActual)
                   \/ (HasCol(tables[tabla], nuevoNombre)
                       /\ ~(db_type = "mysql" /\ nuevoNombre = columnaActual))
           THEN /\ last' = Call("renombrarColumna", args, Err("Error al renombrar la columna: "), <<sql>>)
                /\ UNCHANGED tables
           ELSE /\ last' = Call("renombrarColumna", args, Ok("Columna renombrada exitosamente."), <<sql>>)
                /\ tables' = [tables EXCEPT ![tabla].cols = RenameCol(@, columnaActual, nuevoNombre)]
        /\ UNCHANGED <<db_type, ph, proc, reqs>>

\* columnas.map(quoteIdent).join(', ')
QuotedList(cols) == Join([i \in 1..Len(cols) |-> <<quoteIdent(cols[i])>>], Kw(","))

agregarRestriccionUnica ==
  /\ Idle
  /\ \E tabla \in ArgTabla, columnas \in {<<>>, <<"email">>, <<"id", "email">>},
       nombre \in {"", "uq_email"}, falla \in BOOLEAN :
        /\ LET args == [tabla |-> tabla, columnas |-> columnas, nombre |-> nombre]
               \* const restriccion = nombre ? quoteIdent(nombre) : ''
               restriccion == IF nombre # "" THEN <<quoteIdent(nombre)>> ELSE <<>>
               sql == RunQuery(<<Kw("ALTER TABLE"), quoteIdent(tabla), Kw("ADD CONSTRAINT")>>
                               \o restriccion
                               \o <<Kw("UNIQUE (")>> \o QuotedList(columnas) \o <<Kw(")")>>, <<>>)
           IN
           IF tabla = "" \/ Len(columnas) = 0
           THEN last' = Call("agregarRestriccionUnica", args,
                             Err("Debes proporcionar la tabla y al menos una columna."), <<>>)
           \* PostgreSQL wants a name after CONSTRAINT
           ELSE IF \/ falla \/ ~tables[tabla].exists \/ UnknownCols(tabla, columnas)
                   \/ (db_type # "mysql" /\ nombre = "")
           THEN last' = Call("agregarRestriccionUnica", args,
                             Err("Error al agregar restriccion UNIQUE: "), <<sql>>)
           ELSE last' = Call("agregarRestriccionUnica", args,
                             Ok("Restriccion UNIQUE agregada exitosamente."), <<sql>>)
        /\ UNCHANGED <<db_type, tables, ph, proc, reqs>>

agregarClaveForanea ==
  /\ Idle
  /\ \E tabla \in ArgTabla, columnas \in {<<>>, <<"id">>}, tablaReferencia \in ArgTabla,
       columnasReferencia \in {<<>>, <<"id">>}, nombre \in {"", "fk_cliente"},
       onDelete \in {"", "CASCADE"}, onUpdate \in {"", "SET NULL"}, falla \in BOOLEAN :
        /\ LET args == [tabla |-> tabla, columnas |-> columnas,
                        tablaReferencia |-> tablaReferencia,
                        columnasReferencia |-> columnasReferencia, nombre |-> nombre,
                        onDelete |-> onDelete, onUpdate |-> onUpdate]
               nombreFK == IF nombre # "" THEN <<Kw("CONSTRAINT"), quoteIdent(nombre)>> ELSE <<>>
               sql == RunQuery(<<Kw("ALTER TABLE"), quoteIdent(tabla), Kw("ADD")>>
                               \o nombreFK
                               \o <<Kw("FOREIGN KEY (")>> \o QuotedList(columnas)
                               \o <<Kw(") REFERENCES"), quoteIdent(tablaReferencia), Kw("(")>>
                               \o QuotedList(columnasReferencia) \o <<Kw(")")>>
                               \o (IF onDelete # "" THEN <<Kw("ON DELETE"), Raw(onDelete)>> ELSE <<>>)
                               \o (IF onUpdate # "" THEN <<Kw("ON UPDATE"), Raw(onUpdate)>> ELSE <<>>),
                               <<>>)
           IN
           \* !columnas and !columnasReferencia are false for every array, [] included
           IF tabla = "" \/ tablaReferencia = ""
           THEN last' = Call("agregarClaveForanea", args,
                             Err("Debes proporcionar tabla, columnas, tablaReferencia y columnasReferencia."),
                             <<>>)
           ELSE IF \/ falla \/ ~tables[tabla].exists \/ ~tables[tablaReferencia].exists
                   \/ Len(columnas) = 0 \/ Len(columnas) # Len(columnasReferencia)
                   \/ UnknownCols(tabla, columnas)
                   \/ UnknownCols(tablaReferencia, columnasReferencia)
           THEN last' = Call("agregarClaveForanea", args,
                             Err("Error al agregar clave foranea: "), <<sql>>)
           ELSE last' = Call("agregarClaveForanea", args,
                             Ok("Clave foranea agregada exitosamente."), <<sql>>)
        /\ UNCHANGED <<db_type, tables, ph, proc, reqs>>

Acciones == {"create", "read", "update", "delete"}

OtraTabla(t) == IF t = "t1" THEN "t2" ELSE "t1"

\* the update / delete filter test with only its !filtro half
FiltroVacioSoloFalsy(filtro) == filtro.kind # "object"

\* !filtro || Object.keys(filtro).length === 0
FiltroVacio(filtro) == filtro.kind # "object" \/ Len(ObjectKeys(filtro)) = 0

\* the read branch with its WHERE clause built whatever the filter holds
ReadSQLAlwaysWhere(tabla, filtro) ==
    RunQueryWithParams(
        <<Kw("SELECT * FROM"), quoteIdent(tabla), Kw("WHERE")>>
        \o Join(Condiciones(ObjectKeys(filtro), 0), Kw("AND")),
        ObjectValues(filtro))

\* lines 394-402: the SELECT of the read branch, over the normalised filter
ReadSQL(tabla, filtro) ==
    RunQueryWithParams(
        <<Kw("SELECT * FROM"), quoteIdent(tabla)>>
        \o (IF Len(ObjectKeys(filtro)) > 0
            THEN <<Kw("WHERE")>> \o Join(Condiciones(ObjectKeys(filtro), 0), Kw("AND"))
            ELSE <<>>),
        IF Len(ObjectKeys(filtro)) > 0 THEN ObjectValues(filtro) ELSE <<>>)

\* result.rows of runQueryWithParams for an UPDATE / DELETE that matched
\* `afectadas` rows: mysql2 resolves to a ResultSetHeader, pg to res.rows = []
ResultRows(afectadas) ==
    IF db_type = "mysql"
    THEN [isHeader |-> TRUE, affectedRows |-> afectadas]
    ELSE [isHeader |-> FALSE, affectedRows |-> 0]

\* `${prefix}${result.rows?.affectedRows ?? 'verifica la tabla.'}`
Reporte(prefix, rows) ==
    IF rows.isHeader
    THEN [isError |-> FALSE, text |-> prefix, n |-> rows.affectedRows]
    ELSE [isError |-> FALSE,
          text |-> IF prefix = "Registros actualizados: "
                   THEN "Registros actualizados: verifica la tabla."
                   ELSE "Registros eliminados: verifica la tabla.",
          n |-> 0]

crudTabla ==
  /\ Idle
  /\ \E tabla \in ArgTabla, accion \in Acciones, datos \in ArgObjeto, filtro0 \in ArgObjeto,
       falla \in BOOLEAN :
      \E afectadas \in IF accion \in {"update", "delete"} /\ ~falla THEN 0..MaxFilas ELSE {0} :
      \E confirmacion \in IF accion = "delete"
                          THEN Confirmaciones(PlantillaCrudDelete(tabla),
                                              PlantillaCrudDelete(OtraTabla(tabla)))
                          ELSE {SinConfirmacion} :
        /\ LET args == [tabla |-> tabla, accion |-> accion, datos |-> datos,
                        filtro |-> filtro0, confirmacion |-> confirmacion]
               \* lines 380-382: a missing or non-object filter becomes {}
               filtro == IF accion \in {"update", "delete", "read"} /\ NotAnObject(filtro0)
                         THEN Obj(<<>>, <<>>) ELSE filtro0
               absent == ~tables[tabla].exists
               createSQL == RunQueryWithParams(
                                InsertSQL(tabla, ObjectKeys(datos), Len(ObjectValues(datos))),
                                ObjectValues(datos))
               readSQL == ReadSQL(tabla, filtro)
               setVals == ObjectValues(datos)
               updateSQL == RunQueryWithParams(
                                <<Kw("UPDATE"), quoteIdent(tabla), Kw("SET")>>
                                \o Join(Condiciones(ObjectKeys(datos), 0), Kw(","))
                                \o <<Kw("WHERE")>>
                                \o Join(Condiciones(ObjectKeys(filtro), Len(setVals)), Kw("AND")),
                                setVals \o ObjectValues(filtro))
               deleteSQL == RunQueryWithParams(
                                <<Kw("DELETE FROM"), quoteIdent(tabla), Kw("WHERE")>>
                                \o Join(Condiciones(ObjectKeys(filtro), 0), Kw("AND")),
                                ObjectValues(filtro))
           IN
           IF tabla = ""
           THEN last' = Call("crudTabla", args, Err("Debes especificar la tabla y la accion."), <<>>)
           ELSE IF accion \in {"create", "update"} /\ NotAnObject(datos)
           THEN last' = Call("crudTabla", args,
                             Err("Debes proporcionar datos para crear o actualizar."), <<>>)
           ELSE IF accion = "create"
           THEN IF \/ falla \/ absent \/ UnknownCols(tabla, ObjectKeys(datos))
                   \/ (Len(ObjectKeys(datos)) = 0 /\ db_type # "mysql")
                THEN last' = Call("crudTabla", args, Err("Error en CRUD: "), <<createSQL>>)
                ELSE last' = Call("crudTabla", args, Ok("Registro creado exitosamente."), <<createSQL>>)
           ELSE IF accion = "read"
           THEN IF falla \/ absent \/ UnknownCols(tabla, ObjectKeys(filtro))
                THEN last' = Call("crudTabla", args, Err("Error en CRUD: "), <<readSQL>>)
                ELSE last' = Call("crudTabla", args, Ok("JSON.stringify(result.rows)"), <<readSQL>>)
           ELSE IF accion = "update"
           THEN IF FiltroVacio(filtro)
                THEN last' = Call("crudTabla", args,
                                  Err("Debes proporcionar un filtro para actualizar."), <<>>)
                ELSE IF \/ falla \/ absent \/ Len(ObjectKeys(datos)) = 0
                        \/ UnknownCols(tabla, ObjectKeys(datos))
                        \/ UnknownCols(tabla, ObjectKeys(filtro))
                THEN last' = Call("crudTabla", args, Err("Error en CRUD: "), <<updateSQL>>)
                ELSE last' = [op |-> "crudTabla", args |-> args,
                              env |-> Reporte("Registros actualizados: ", ResultRows(afectadas)),
                              stmts |-> <<updateSQL>>, matched |-> afectadas]
           ELSE IF FiltroVacio(filtro)
                THEN last' = Call("crudTabla", args,
                                  Err("Debes proporcionar un filtro para borrar."), <<>>)
                ELSE IF falla \/ absent \/ UnknownCols(tabla, ObjectKeys(filtro))
                THEN last' = Call("crudTabla", args, Err("Error en CRUD: "), <<deleteSQL>>)
                ELSE last' = [op |-> "crudTabla", args |-> args,
                              env |-> Reporte("Registros eliminados: ", ResultRows(afectadas)),
                              stmts |-> <<deleteSQL>>, matched |-> afectadas]
        /\ UNCHANGED <<db_type, tables, ph, proc, reqs>>

-----------------------------------------------------------------------------
(* Row values as the drivers hand them over, and what JSON makes of them *)

\* a DATE / DATETIME value: mysql2 and pg both return it as a JavaScript Date
DateValue == "Date(2024-01-01)"

\* Date.prototype.toJSON
IsoString == "2024-01-01T00:00:00.000Z"

\* the values of result.rows
ValoresFila == {"v1", DateValue}

\* JSON.stringify of one row value
toJSON(v) == IF v = DateValue THEN IsoString ELSE v

\* what the engine stores for a bound value (read back through the driver):
\* PostgreSQL parses the ISO text into the date it denotes
StoredValue(v) == IF v = IsoString THEN DateValue ELSE v

-----------------------------------------------------------------------------
(* The INSERT loop shared by insertarDatos (lines 332-341) and importarTabla *)
(* (lines 217-226).  columnas = <<>> stands for "no column list given".      *)

HasUndefined(vals) == \E i \in 1..Len(vals) : vals[i] = "undefined"

\* Object.keys(registro) / registro[c] raise a TypeError on null and undefined
BuildThrows(registro) == registro.kind \in {"null", "undefined"}

LoopCols(registro, columnas) ==
    IF Len(columnas) > 0 THEN columnas ELSE ObjectKeys(registro)

\* the values taken in the record's own key order, whatever columns are listed
LoopValoresObjectValues(registro, columnas) == ObjectValues(registro)

\* cols.map(c => registro[c]); in insertarDatos, where cols is Object.keys(registro),
\* Object.values(registro)
LoopValores(registro, columnas) ==
    LET cols == LoopCols(registro, columnas) IN
    [i \in 1..Len(cols) |-> Get(registro, cols[i])]

LoopSQL(tabla, registro, columnas) ==
    RunQueryWithParams(
        InsertSQL(tabla, LoopCols(registro, columnas), Len(LoopValores(registro, columnas))),
        LoopValores(registro, columnas))

\* the engine (or, for an undefined bind value, the mysql driver) refuses the INSERT
InsertFails(tabla, registro, columnas) ==
    \/ ~TableExists(tabla)
    \/ UnknownCols(tabla, LoopCols(registro, columnas))
    \/ (Len(LoopCols(registro, columnas)) = 0 /\ db_type # "mysql")
    \/ (db_type = "mysql" /\ HasUndefined(LoopValores(registro, columnas)))
    \* mysql (strict SQL mode, its default) refuses '...T00:00:00.000Z' for a
    \* DATE / DATETIME column: 'Incorrect datetime value'
    \/ (db_type = "mysql"
        /\ \E i \in 1..Len(LoopValores(registro, columnas)) :
               LoopValores(registro, columnas)[i] = IsoString)

\* the loop with the await inside a try/catch of its own: a failing INSERT is
\* noted and the loop goes on to the next record
InsertLoopKeepsGoing(tabla, registros, columnas, failAt) ==
    LET k == Len(registros)
        bad(i) == \/ BuildThrows(registros[i])
                  \/ failAt = i
                  \/ InsertFails(tabla, registros[i], columnas)
        built(i) == ~BuildThrows(registros[i])
        good(i) == ~bad(i)
        sent == SelectSeq([i \in 1..k |-> i], built)
        done == SelectSeq([i \in 1..k |-> i], good)
    IN [threw |-> \E i \in 1..k : bad(i),
        insertedCount |-> Len(done),
        stmts |-> [n \in 1..Len(sent) |-> LoopSQL(tabla, registros[sent[n]], columnas)],
        stored |-> [n \in 1..Len(done) |->
                      Obj(LoopCols(registros[done[n]], columnas),
                          [j \in 1..Len(LoopValores(registros[done[n]], columnas)) |->
                              StoredValue(LoopValores(registros[done[n]], columnas)[j])])]]

\* for (const registro of registros) { ...; await runQueryWithParams(sql, valores); insertedCount++ }
\* failAt = the iteration at which the driver fails on its own (0: never)
InsertLoop(tabla, registros, columnas, failAt) ==
    LET k == Len(registros)
        bad(i) == \/ BuildThrows(registros[i])
                  \/ failAt = i
                  \/ InsertFails(tabla, registros[i], columnas)
        firstBad == IF \E i \in 1..k : bad(i)
                    THEN CHOOSE i \in 1..k : bad(i) /\ \A j \in 1..(i - 1) : ~bad(j)
                    ELSE 0
        issued == IF firstBad = 0 THEN k
                  ELSE IF BuildThrows(registros[firstBad]) THEN firstBad - 1
                  ELSE firstBad
    IN [threw |-> firstBad # 0,
        insertedCount |-> IF firstBad = 0 THEN k ELSE firstBad - 1,
        stmts |-> [i \in 1..issued |-> LoopSQL(tabla, registros[i], columnas)],
        \* every INSERT runs on its own through the pool: no transaction, no
        \* rollback, so the rows of the INSERTs that succeeded are in the table
        stored |-> [i \in 1..(IF firstBad = 0 THEN k ELSE firstBad - 1) |->
                      Obj(LoopCols(registros[i], columnas),
                          [j \in 1..Len(LoopValores(registros[i], columnas)) |->
                              StoredValue(LoopValores(registros[i], columnas)[j])])]]

\* z.array(z.record(z.any())): the records one call may carry
RegistrosObjeto == {Obj(<<"id", "email">>, <<"v1", "v2">>), Obj(<<"email", "id">>, <<"v1", "v1">>),
                    Obj(<<"email">>, <<"v2">>), Obj(<<>>, <<>>)}

RECURSIVE SeqsUpTo(_, _)
SeqsUpTo(S, n) ==
    IF n = 0 THEN {<<>>}
    ELSE LET shorter == SeqsUpTo(S, n - 1) IN
         shorter \cup {Append(q, x) : q \in {r \in shorter : Len(r) = n - 1}, x \in S}

insertarDatos ==
  /\ Idle
  /\ \E tabla \in ArgTabla, datos \in SeqsUpTo(RegistrosObjeto, MaxRegistros) :
      \E failAt \in 0..Len(datos) :
        /\ LET args == [tabla |-> tabla, datos |-> datos, failAt |-> failAt]
               r == InsertLoop(tabla, datos, <<>>, failAt)
           IN
           IF Len(datos) = 0
           THEN last' = Call("insertarDatos", args,
                             Err("Debes proporcionar un array de datos para insertar."), <<>>)
           ELSE IF r.threw
           THEN last' = CallStored("insertarDatos", args, Err("Error al insertar datos: "),
                                   r.stmts, r.stored)
           ELSE last' = CallStored("insertarDatos", args,
                                   [isError |-> FALSE, text |-> "Se insertaron registro(s)",
                                    n |-> r.insertedCount], r.stmts, r.stored)
        /\ UNCHANGED <<db_type, tables, ph, proc, reqs>>

-----------------------------------------------------------------------------
(* importarTabla.  A JSON text is given by what JSON.parse makes of it; a    *)
(* CSV text by its lines and their comma-separated fields.                   *)

RegistrosJSON == {Obj(<<"id", "email">>, <<"v1", "v2">>), Obj(<<"email">>, <<"v2">>),
                  Obj(<<>>, <<>>), Null, UnNumero}

JsonMalformed == [malformed |-> TRUE, isArray |-> FALSE, items |-> <<>>]
JsonObject == [malformed |-> FALSE, isArray |-> FALSE, items |-> <<>>]
JsonArray(items) == [malformed |-> FALSE, isArray |-> TRUE, items |-> items]

JsonTextos == {JsonMalformed, JsonObject}
              \cup {JsonArray(items) : items \in SeqsUpTo(RegistrosJSON, MaxRegistros)}

\* String.prototype.trim on a CSV field
TrimField(f) ==
    CASE f = " id " -> "id"
      [] f = " v1" -> "v1"
      [] OTHER -> f

CsvLines == {<<"id", "email">>, <<" id ", "id">>, <<"v1", "v2">>, <<" v1">>, <<"">>}

\* datos.split(/\r?\n/): the lines; row.split(','): the fields of a line
CsvTextos == SeqsUpTo(CsvLines, MaxRegistros + 1)

\* .filter(Boolean) drops the empty lines
FilterBoolean(rows) == SelectSeq(rows, LAMBDA row : row # <<"">>)

\* headers.forEach((h, i) => { obj[h.trim()] = values[i]?.trim(); })
RECURSIVE CsvRecord(_, _, _, _)
CsvRecord(headers, values, i, obj) ==
    IF i > Len(headers) THEN obj
    ELSE CsvRecord(headers, values, i + 1,
                   SetKey(obj, TrimField(headers[i]),
                          IF i <= Len(values) THEN TrimField(values[i]) ELSE "undefined"))

\* lines 205-215
CsvRegistros(rows, columnas) ==
    LET headers == IF Len(columnas) > 0 THEN columnas ELSE rows[1] IN
    [i \in 1..(Len(rows) - 1) |-> CsvRecord(headers, rows[i + 1], 1, Obj(<<>>, <<>>))]

ArgColumnas == {<<>>, <<"email", "id">>}

\* JSON.parse throws on malformed text; rows[0].split throws when no line is left
ImportParseThrows(formato, datos) ==
    IF formato = "json" THEN datos.malformed ELSE Len(FilterBoolean(datos)) = 0

\* lines 203-215: the records the text stands for
ImportRegistros(formato, datos, columnas) ==
    IF formato = "json" THEN datos.items ELSE CsvRegistros(FilterBoolean(datos), columnas)

\* the importarTabla handler on given arguments; failAt as in InsertLoop
importarTablaCall(tabla, formato, datos, columnas, failAt) ==
    LET args == [tabla |-> tabla, formato |-> formato, datos |-> datos,
                 columnas |-> columnas, failAt |-> failAt]
        \* for...of over a parsed value that is not an array raises a TypeError
        notIterable == formato = "json" /\ ~datos.isArray
    IN IF ImportParseThrows(formato, datos) \/ notIterable
       THEN CallStored("importarTabla", args, Err("Error al importar datos: "), <<>>, <<>>)
       ELSE LET r == InsertLoop(tabla, ImportRegistros(formato, datos, columnas), columnas, failAt)
            IN IF r.threw
               THEN CallStored("importarTabla", args, Err("Error al importar datos: "),
                               r.stmts, r.stored)
               ELSE CallStored("importarTabla", args,
                               [isError |-> FALSE, text |-> "Se importaron registro(s)",
                                n |-> r.insertedCount], r.stmts, r.stored)

importarTabla ==
  /\ Idle
  /\ \E tabla \in ArgTabla, formato \in {"csv", "json"}, columnas \in ArgColumnas :
      \E datos \in IF formato = "json" THEN JsonTextos ELSE CsvTextos :
       \E failAt \in IF ImportParseThrows(formato, datos) \/ (formato = "json" /\ ~datos.isArray)
                     THEN {0}
                     ELSE 0..Len(ImportRegistros(formato, datos, columnas)) :
        /\ last' = importarTablaCall(tabla, formato, datos, columnas, failAt)
        /\ UNCHANGED <<db_type, tables, ph, proc, reqs>>

-----------------------------------------------------------------------------
(* exportarTabla, and an import of what it exported *)

\* JSON.stringify(result.rows), given by what JSON.parse makes of the text
JSONstringify(filas) ==
    JsonArray([i \in 1..Len(filas) |->
                  Obj(ObjectKeys(filas[i]),
                      [j \in 1..Len(ObjectValues(filas[i])) |-> toJSON(ObjectValues(filas[i])[j])])])

ExportColumnas == {<<>>, <<"id">>}

\* the rows a SELECT over the columns sel can return
FilasDe(sel) == SeqsUpTo({Obj(sel, vs) : vs \in [1..Len(sel) -> ValoresFila]}, MaxFilas)

ExportSQL(tabla, columnas) ==
    RunQuery(<<Kw("SELECT")>>
             \o (IF Len(columnas) > 0
                 THEN Join([i \in 1..Len(columnas) |-> <<quoteIdent(columnas[i])>>], Kw(","))
                 ELSE <<Raw("*")>>)
             \o <<Kw("FROM"), quoteIdent(tabla)>>, <<>>)

exportarTabla ==
  /\ Idle
  /\ \E tabla \in ArgTabla, formato \in {"csv", "json"}, columnas \in ExportColumnas,
       falla \in BOOLEAN :
       LET args == [tabla |-> tabla, formato |-> formato, columnas |-> columnas, falla |-> falla]
           fails == \/ falla \/ tabla = ""
                    \/ ~TableExists(tabla) \/ UnknownCols(tabla, columnas)
       IN
       /\ IF fails
          THEN last' = Call("exportarTabla", args, Err("Error al exportar tabla: "),
                            <<ExportSQL(tabla, columnas)>>)
          ELSE \E filas \in FilasDe(IF Len(columnas) > 0 THEN columnas ELSE tables[tabla].cols) :
                 last' = IF formato = "json"
                         THEN [op |-> "exportarTabla", args |-> args,
                               env |-> [isError |-> FALSE, text |-> "JSON.stringify(result.rows)",
                                        n |-> Len(filas)],
                               stmts |-> <<ExportSQL(tabla, columnas)>>,
                               filas |-> filas, texto |-> JSONstringify(filas)]
                         ELSE [op |-> "exportarTabla", args |-> args,
                               env |-> [isError |-> FALSE, text |-> "json2csv(result.rows)",
                                        n |-> Len(filas)],
                               stmts |-> <<ExportSQL(tabla, columnas)>>,
                               filas |-> filas]
       /\ UNCHANGED <<db_type, tables, ph, proc, reqs>>

\* the caller takes the JSON text of the answer and sends it to importarTabla
\* (formato json, no columnas) for the table destino, every INSERT answered
importarExportado ==
  /\ last.op = "exportarTabla"
  /\ ~last.env.isError
  /\ last.args.formato = "json"
  /\ \E destino \in NombresTabla :
        last' = [origen |-> last.args.tabla, exportado |-> last.filas,
                 completa |-> Len(last.args.columnas) = 0]
                @@ importarTablaCall(destino, "json", last.texto, <<>>, 0)
  /\ UNCHANGED <<db_type, tables, ph, proc, reqs>>

\* two tables of identical schema
InitRT ==
    /\ db_type \in DbTypes
    /\ tables \in {[t \in NombresTabla |-> Table(<<"id", "email">>)],
                   [t \in NombresTabla |-> Table(<<"id">>)]}
    /\ last = NoCall
    /\ ph = NoPh
    /\ proc = Serving(DriverOf(db_type))
    /\ reqs = NoReqs

NextRT ==
    \/ Respond
    \/ exportarTabla
    \/ importarExportado

SpecRT == InitRT /\ [][NextRT]_vars

-----------------------------------------------------------------------------
(* QueryRunner.getSchema and the listarTablas handler *)

\* the order in which the engine lists its tables
TableOrder == <<"t1", "t2">>

ExistingTables == SelectSeq(TableOrder, TableExists)

ShowTables ==
    [via |-> "execute", text |-> <<Kw("SHOW TABLES")>>, raw |-> <<>>, params |-> NoParams]

SelectTableName ==
    [via |-> "query",
     text |-> <<Kw("SELECT table_name FROM information_schema.tables WHERE table_schema = 'public' AND table_type='BASE TABLE'")>>,
     raw |-> <<>>, params |-> NoParams]

SelectColumnNameType(table) ==
    [via |-> "query",
     text |-> <<Kw("SELECT column_name, data_type FROM information_schema.columns WHERE table_name ="),
                [t |-> "ph", s |-> "$", n |-> 1]>>,
     raw |-> <<>>, params |-> <<table>>]

\* failAt: which of the catalog queries the driver fails (0: none).  The
\* table-name query is awaited first; the column queries are all issued by
\* tables.map before Promise.all settles, so one failing does not stop the rest.
getSchema(failAt) ==
    LET names == ExistingTables
        first == IF db_type = "mysql" THEN ShowTables ELSE SelectTableName
        colq == [i \in 1..Len(names) |->
                    IF db_type = "mysql" THEN ShowColumns(names[i])
                    ELSE SelectColumnNameType(names[i])]
    IN IF failAt = 1
       THEN [threw |-> TRUE, schema |-> <<>>, stmts |-> <<first>>]
       \* Object.keys(tables[0]) on an empty SHOW TABLES result: TypeError
       ELSE IF db_type = "mysql" /\ Len(names) = 0
       THEN [threw |-> TRUE, schema |-> <<>>, stmts |-> <<first>>]
       ELSE [threw |-> failAt \in 2..(Len(names) + 1),
             schema |-> IF failAt \in 2..(Len(names) + 1) THEN <<>>
                        ELSE [i \in 1..Len(names) |->
                                 [name |-> names[i], columns |-> tables[names[i]].cols]],
             stmts |-> <<first>> \o colq]

\* the handler's promise rejected: no envelope was built
Rejected == [isError |-> FALSE, text |-> "(exception out of the handler)", n |-> 0]

\* no try/catch around getSchema (lines 71-78)
listarTablas ==
  /\ Idle
  /\ \E failAt \in 0..(Cardinality(NombresTabla) + 1) :
        /\ LET r == getSchema(failAt) IN
           last' = [op |-> "listarTablas", args |-> [failAt |-> failAt],
                    env |-> IF r.threw THEN Rejected
                            ELSE [isError |-> FALSE, text |-> "Tablas:", n |-> Len(r.schema)],
                    stmts |-> r.stmts, schema |-> r.schema]
        /\ UNCHANGED <<db_type, tables, ph, proc, reqs>>

-----------------------------------------------------------------------------
(* Startup, the connectivity probe, the pool and shutdown *)

\* process.env.DB_TYPE; "undefined" stands for an unset variable
EnvDbTypes == {"mysql", "postgres", "pg", "postgresql", "undefined"}

\* process.env.DB_PORT
EnvDbPorts == {"undefined", "", "3306", "0", "abc"}

\* parseInt on the values of EnvDbPorts
parseInt(str) ==
    CASE str = "3306" -> [kind |-> "number", n |-> 3306]
      [] str = "0" -> [kind |-> "number", n |-> 0]
      [] OTHER -> [kind |-> "NaN", n |-> 0]

\* the startup that never finds the port missing
PortMissingNever(port) == FALSE

\* !db_port, with db_port = DB_PORT ? parseInt(DB_PORT) : undefined
PortMissing(port) ==
    LET db_port == IF port \in {"undefined", ""}
                   THEN [kind |-> "undefined", n |-> 0]
                   ELSE parseInt(port)
    IN db_port.kind \in {"undefined", "NaN"} \/ db_port.n = 0

InitLife ==
    /\ db_type \in EnvDbTypes
    /\ tables \in InitTables
    /\ last = NoCall
    /\ ph = NoPh
    /\ proc \in {Boot(port) : port \in EnvDbPorts}
    /\ reqs = NoReqs

\* the module body of mcp_server.js, which runs synchronously: configuration,
\* new QueryRunner, the server.tool registrations, server.connect, process.on
Startup ==
    /\ proc.phase = "boot"
    /\ proc' = IF PortMissing(proc.DB_PORT)
               THEN [proc EXCEPT !.phase = "aborted", !.fatal = "DB_PORT"]
               \* db_type.toLowerCase() with DB_TYPE unset (line 35)
               ELSE IF db_type = "undefined"
               THEN [proc EXCEPT !.phase = "aborted", !.fatal = "TypeError"]
               ELSE IF db_type \notin DbTypes
               THEN [proc EXCEPT !.phase = "aborted", !.fatal = "Tipo de base de datos no soportado"]
               ELSE [proc EXCEPT !.phase = "serving", !.pool = "open",
                                 !.engine = DriverOf(db_type),
                                 !.registered = TRUE, !.transport = TRUE]
    /\ UNCHANGED <<db_type, tables, last, ph, reqs>>

\* the catch block of the probe with its process.exit(1) active
catchProbeFailureExit(p) ==
    [p EXCEPT !.probe = "failed", !.logged = TRUE, !.phase = "exited"]

\* catch (e) { console.error(...); // process.exit(1); }
catchProbeFailure(p) == [p EXCEPT !.probe = "failed", !.logged = TRUE]

\* testConnection up to its second await: pool.getConnection() / pool.connect()
testConnectionAcquire ==
    /\ proc.phase = "serving"
    /\ proc.probe = "none"
    /\ \E ok \in BOOLEAN :
          /\ ok => proc.pool = "open"
          /\ proc' = IF ok
                     THEN [proc EXCEPT !.probe = "pinging", !.checkedOut = @ + 1]
                     ELSE catchProbeFailure(proc)
    /\ UNCHANGED <<db_type, tables, last, ph, reqs>>

\* conn.ping() / client.query('SELECT 1'), then release() when it did not throw
testConnectionPing ==
    /\ proc.phase = "serving"
    /\ proc.probe = "pinging"
    /\ \E ok \in BOOLEAN :
          proc' = IF ok
                  THEN [proc EXCEPT !.probe = "ok", !.checkedOut = @ - 1]
                  ELSE catchProbeFailure(proc)
    /\ UNCHANGED <<db_type, tables, last, ph, reqs>>

\* this.pool.execute / this.pool.query: the driver takes a connection, runs the
\* statement and gives the connection back; on an ended pool it refuses
\* (mysql2: 'Pool is closed.', pg: 'Cannot use a pool after calling end on the pool')
Execute(p, via, ok) ==
    [p EXCEPT !.result =
        [outcome |-> IF p.pool = "ended" THEN "pool-closed"
                     ELSE IF ok THEN "rows" ELSE "error",
         via |-> via,
         ran |-> p.pool = "open" /\ ok,
         closed |-> p.closeDone, probe |-> p.probe, transport |-> p.transport]]

runQuery ==
    /\ proc.phase = "serving"
    /\ \E ok \in BOOLEAN : proc' = Execute(proc, "runQuery", ok)
    /\ UNCHANGED <<db_type, tables, last, ph, reqs>>

runQueryWithParams ==
    /\ proc.phase = "serving"
    /\ \E ok \in BOOLEAN : proc' = Execute(proc, "runQueryWithParams", ok)
    /\ UNCHANGED <<db_type, tables, last, ph, reqs>>

\* closePool that leaves the pool alone
closePoolNoEnd(p) == [p EXCEPT !.closeCalls = @ + 1]

\* if (this.pool) await this.pool.end(): this.pool is never reset, so every
\* call reaches end(); pg rejects a second end() ('Called end on pool more
\* than once'), mysql2 accepts it
closePool(p) ==
    IF p.pool = "none"
    THEN [p EXCEPT !.closeCalls = @ + 1]
    ELSE [p EXCEPT !.closeCalls = @ + 1,
                   !.endCalls = @ + 1,
                   !.pool = "ended",
                   !.closeFailed = @ \/ (p.pool = "ended" /\ p.engine = "pg")]

\* SIGINT / SIGTERM starts a run of cleanup
Signal(s) ==
    /\ proc.phase = "serving"
    /\ proc.cleanup[s] = "idle"
    /\ proc' = [proc EXCEPT !.cleanup[s] = "closeServer"]
    /\ UNCHANGED <<db_type, tables, last, ph, reqs>>

\* await server.close()
cleanupCloseServer(s) ==
    /\ proc.phase = "serving"
    /\ proc.cleanup[s] = "closeServer"
    /\ proc' = [proc EXCEPT !.cleanup[s] = "closePool", !.transport = FALSE]
    /\ UNCHANGED <<db_type, tables, last, ph, reqs>>

\* query_runner.closePool() up to its await; a rejected end() rejects cleanup,
\* and the unhandled rejection ends the process or not, by the runtime's mode
cleanupClosePool(s) ==
    /\ proc.phase = "serving"
    /\ proc.cleanup[s] = "closePool"
    /\ LET q == closePool(proc)
           threw == q.closeFailed /\ ~proc.closeFailed
       IN IF threw
          THEN \E crash \in BOOLEAN :
                  proc' = [q EXCEPT !.cleanup[s] = "rejected",
                                    !.phase = IF crash THEN "exited" ELSE @]
          ELSE proc' = [q EXCEPT !.cleanup[s] = "ending"]
    /\ UNCHANGED <<db_type, tables, last, ph, reqs>>

\* the await of pool.end() resolves: closePool() has completed
cleanupPoolClosed(s) ==
    /\ proc.phase = "serving"
    /\ proc.cleanup[s] = "ending"
    /\ proc' = [proc EXCEPT !.cleanup[s] = "exit", !.closeDone = TRUE]
    /\ UNCHANGED <<db_type, tables, last, ph, reqs>>

\* process.exit(0)
cleanupExit(s) ==
    /\ proc.phase = "serving"
    /\ proc.cleanup[s] = "exit"
    /\ proc' = [proc EXCEPT !.cleanup[s] = "done", !.phase = "exited"]
    /\ UNCHANGED <<db_type, tables, last, ph, reqs>>

cleanup ==
    \E s \in Signals :
        \/ cleanupCloseServer(s)
        \/ cleanupClosePool(s)
        \/ cleanupPoolClosed(s)
        \/ cleanupExit(s)

NextLife ==
    \/ Startup
    \/ testConnectionAcquire
    \/ testConnectionPing
    \/ runQuery
    \/ runQueryWithParams
    \/ \E s \in Signals : Signal(s)
    \/ cleanup

SpecLife == InitLife /\ [][NextLife]_vars

-----------------------------------------------------------------------------
(* Direct application of makePlaceholders *)

ApplyMakePlaceholders ==
    \E engine \in DbTypes, count \in 0..MaxCount, offset \in 0..MaxOffset :
        /\ ph' = [engine |-> engine, count |-> count, offset |-> offset,
                  tokens |-> makePlaceholders(engine, count, offset)]
        /\ UNCHANGED <<db_type, tables, last, proc, reqs>>

NextPH == ApplyMakePlaceholders

SpecPH == Init /\ [][NextPH]_vars

-----------------------------------------------------------------------------
(* crearTabla requests in flight together.  The transport hands every       *)
(* request to its handler as it arrives; a handler gives up control at each  *)
(* await, so another request's steps can run between the probe and the       *)
(* CREATE TABLE of one request.                                              *)

\* the handler starts: argument checks, then the probe is sent and awaited
crearTablaRecibe(r) ==
    /\ reqs[r].pc = "idle"
    /\ \E nombreTabla \in ArgTabla, columnas \in {<<>>, <<"id">>} :
          reqs' = [reqs EXCEPT ![r] =
                     IF nombreTabla = "" \/ Len(columnas) = 0
                     THEN [pc |-> "done", nombreTabla |-> nombreTabla, columnas |-> columnas,
                           stmts |-> <<>>,
                           env |-> Err("Debes proporcionar un nombre de tabla y al menos una columna.")]
                     ELSE [pc |-> "probe", nombreTabla |-> nombreTabla, columnas |-> columnas,
                           stmts |-> <<>>, env |-> Ok("")]]
    /\ UNCHANGED <<db_type, tables, last, ph, proc>>

\* await query_runner.getTableColumns(nombreTabla) resolves: either the early
\* return, or the CREATE TABLE is sent and awaited
crearTablaProbe(r) ==
    /\ reqs[r].pc = "probe"
    /\ LET probe == getTableColumns(reqs[r].nombreTabla, FALSE) IN
       reqs' = [reqs EXCEPT ![r] =
                  IF Len(probe.cols) > 0
                  THEN [@ EXCEPT !.pc = "done", !.stmts = probe.stmts,
                                 !.env = Ok("La tabla ya existe.")]
                  ELSE [@ EXCEPT !.pc = "create",
                                 !.stmts = probe.stmts
                                           \o <<CreateTableSQL(reqs[r].nombreTabla,
                                                               reqs[r].columnas, "INT")>>]]
    /\ UNCHANGED <<db_type, tables, last, ph, proc>>

\* await query_runner.runQuery(sql) settles: the server ran the CREATE TABLE
crearTablaCreate(r) ==
    /\ reqs[r].pc = "create"
    /\ IF tables[reqs[r].nombreTabla].exists
       THEN /\ reqs' = [reqs EXCEPT ![r] = [@ EXCEPT !.pc = "done",
                                                     !.env = Err("Error al crear la tabla: ")]]
            /\ UNCHANGED tables
       ELSE /\ reqs' = [reqs EXCEPT ![r] = [@ EXCEPT !.pc = "done",
                                                     !.env = Ok("Tabla creada exitosamente.")]]
            /\ tables' = [tables EXCEPT ![reqs[r].nombreTabla] = Table(reqs[r].columnas)]
    /\ UNCHANGED <<db_type, last, ph, proc>>

\* the envelope goes back over the transport
crearTablaResponde(r) ==
    /\ reqs[r].pc = "done"
    /\ reqs' = [reqs EXCEPT ![r] = IdleReq]
    /\ UNCHANGED <<db_type, tables, last, ph, proc>>

NextCC ==
    \/ \E r \in Requests : crearTablaRecibe(r)
    \/ \E r \in Requests : crearTablaProbe(r)
    \/ \E r \in Requests : crearTablaCreate(r)
    \/ \E r \in Requests : crearTablaResponde(r)

SpecCC == Init /\ [][NextCC]_vars

Next ==
    \/ Respond
    \/ listarTablas
    \/ columnasDeTabla
    \/ consultarSQL
    \/ crearTabla
    \/ eliminarTabla
    \/ eliminarColumna
    \/ eliminarRestriccionUnica
    \/ eliminarClaveForanea
    \/ cambiarTipoColumna
    \/ agregarColumna
    \/ renombrarTabla
    \/ renombrarColumna
    \/ agregarRestriccionUnica
    \/ agregarClaveForanea
    \/ crudTabla
    \/ insertarDatos
    \/ exportarTabla
    \/ importarTabla

Spec == Init /\ [][Next]_vars

-----------------------------------------------------------------------------
(* Properties *)

SELECT == <<"S", "E", "L", "E", "C", "T">>

\* the text is optional whitespace followed by the word select in any letter case
SelectAfterWhitespace(s) ==
    \E k \in 0..Len(s) :
        /\ \A i \in 1..k : IsSpace(s[i])
        /\ Len(s) >= k + 6
        /\ \A i \in 1..6 : s[k + i] \in {select[i], SELECT[i]}

PlaceholdersOf(text) == SelectSeq(text, IsPlaceholder)

Numbers(text) == [i \in 1..Len(PlaceholdersOf(text)) |-> PlaceholdersOf(text)[i].n]

FromTo(a, b) == [i \in 1..(b - a + 1) |-> a + (i - 1)]

IndexOf(text, tok) == CHOOSE i \in 1..Len(text) : text[i] = tok

Verb(stmt) == stmt.text[1].s

\* C1: consultarSQL on a query text that, once trimmed, does not start with
\* "select" in any letter case returns an error envelope and hands no statement
\* to the pool.
C1_ReadOnlyGuard ==
    (last.op = "consultarSQL" /\ ~SelectAfterWhitespace(last.args.consulta))
        => (last.env.isError /\ last.stmts = <<>>)

C1_Witness ==
    /\ last.op = "consultarSQL"
    /\ ~SelectAfterWhitespace(last.args.consulta)
    /\ SelectRegexUnanchored(last.args.consulta)
    /\ last.env = Err("Solo se permiten consultas SELECT.")

\* C2: eliminarTabla, eliminarColumna and crudTabla delete hand their statement
\* to the pool only when the caller supplied the confirmation phrase exactly
\* equal to the template interpolated with the invocation's target names.
C2_ConfirmationGatesDrop ==
    /\ (last.op = "eliminarTabla" /\ last.stmts # <<>>)
         => last.args.confirmacion = PlantillaEliminarTabla(last.args.nombreTabla)
    /\ (last.op = "eliminarColumna" /\ last.stmts # <<>>)
         => last.args.confirmacion = PlantillaEliminarColumna(last.args.tabla, last.args.columna)
    /\ (last.op = "crudTabla" /\ last.args.accion = "delete" /\ last.stmts # <<>>)
         => last.args.confirmacion = PlantillaCrudDelete(last.args.tabla)

\* C3: eliminarRestriccionUnica and eliminarClaveForanea hand their ALTER TABLE
\* ... DROP statement to the pool only when the caller supplied the confirmation
\* phrase exactly equal to the template for that table and constraint name.
C3_ConfirmationGatesConstraintDrop ==
    /\ (last.op = "eliminarRestriccionUnica" /\ last.stmts # <<>>)
         => last.args.confirmacion = PlantillaEliminarRestriccion(last.args.tabla, last.args.nombre)
    /\ (last.op = "eliminarClaveForanea" /\ last.stmts # <<>>)
         => last.args.confirmacion = PlantillaEliminarClaveForanea(last.args.tabla, last.args.nombre)

\* C4: cambiarTipoColumna hands its ALTER statement to the pool only when a
\* confirmation phrase matching the column name and the new type was supplied.
C4_ConfirmationGatesTypeChange ==
    (last.op = "cambiarTipoColumna" /\ last.stmts # <<>>)
        => last.args.confirmacion = PlantillaCambiarTipo(last.args.columna, last.args.nuevoTipo)

\* C5: crudTabla update or delete with a filter that is missing, not an object
\* or an object without keys returns an error envelope and no statement is
\* built or executed.
C5_EmptyFilterRejected ==
    (/\ last.op = "crudTabla"
     /\ last.args.accion \in {"update", "delete"}
     /\ (last.args.filtro.kind # "object" \/ Len(last.args.filtro.keys) = 0))
        => (last.env.isError /\ last.stmts = <<>>)

C5_Witness ==
    /\ last.op = "crudTabla"
    /\ last.args.accion = "update"
    /\ last.args.tabla = "t1"
    /\ last.args.datos = Obj(<<"email">>, <<"v1">>)
    /\ last.args.filtro = Obj(<<>>, <<>>)
    /\ last.env = Err("Debes proporcionar un filtro para actualizar.")
    /\ last.stmts = <<>>

\* C6: crudTabla create or update with data that is missing or has no keys is
\* rejected with an error envelope and no INSERT or UPDATE is executed.
C6_EmptyDataRejected ==
    (/\ last.op = "crudTabla"
     /\ last.args.accion \in {"create", "update"}
     /\ (last.args.datos.kind # "object" \/ Len(last.args.datos.keys) = 0))
        => (last.env.isError /\ last.stmts = <<>>)

\* C7: makePlaceholders(engine, n, offset) returns exactly n tokens; on the
\* numbered engine the i-th token is $ followed by offset + i; on mysql every
\* token is the same "?" whatever the offset.
C7_PlaceholderSequence ==
    /\ Len(ph.tokens) = ph.count
    /\ ph.engine # "mysql" =>
         \A i \in 1..ph.count : ph.tokens[i] = [t |-> "ph", s |-> "$", n |-> ph.offset + i]
    /\ ph.engine = "mysql" =>
         \A i \in 1..ph.count : ph.tokens[i] = [t |-> "ph", s |-> "?", n |-> 0]

C7_Witness ==
    /\ ph.engine = "pg"
    /\ ph.count = 3
    /\ ph.offset = 2
    /\ ph.tokens[3].n = 5

\* C8: crudTabla update on a named table with data of d keys and a filter of
\* f >= 1 keys issues exactly one UPDATE; on the numbered engine its SET group
\* carries placeholders 1..d and its WHERE group d+1..d+f; the bound vector is
\* the data values in key order followed by the filter values in key order.
C8_UpdateNumbering ==
    (/\ last.op = "crudTabla"
     /\ last.args.accion = "update"
     /\ last.args.tabla # ""
     /\ last.args.datos.kind = "object"
     /\ last.args.filtro.kind = "object"
     /\ Len(last.args.filtro.keys) >= 1)
        => LET d == Len(last.args.datos.keys)
               f == Len(last.args.filtro.keys)
               stmt == last.stmts[1]
               w == IndexOf(stmt.text, Kw("WHERE"))
               setGroup == SubSeq(stmt.text, 1, w - 1)
               whereGroup == SubSeq(stmt.text, w + 1, Len(stmt.text))
           IN /\ Len(last.stmts) = 1
              /\ Verb(stmt) = "UPDATE"
              /\ Len(PlaceholdersOf(setGroup)) = d
              /\ Len(PlaceholdersOf(whereGroup)) = f
              /\ db_type # "mysql" =>
                   /\ Numbers(setGroup) = FromTo(1, d)
                   /\ Numbers(whereGroup) = FromTo(d + 1, d + f)
              /\ Len(stmt.params) = d + f
              /\ stmt.params = last.args.datos.vals \o last.args.filtro.vals

C8_Witness ==
    /\ last.op = "crudTabla"
    /\ last.args.accion = "update"
    /\ db_type = "pg"
    /\ last.args.datos = Obj(<<"email", "id">>, <<"v1", "v2">>)
    /\ last.args.filtro = Obj(<<"id", "email">>, <<"v2", "v1">>)
    /\ Len(last.stmts) = 1
    /\ Numbers(last.stmts[1].text) = <<1, 2, 3, 4>>
    /\ ~last.env.isError

\* C9: every statement handed to runQueryWithParams by crudTabla, insertarDatos
\* and importarTabla has as many placeholders as bound values, and on the
\* numbered engine they are exactly $1..$k in order, k the vector's length.
C9_PlaceholdersMatchValues ==
    last.op \in {"crudTabla", "insertarDatos", "importarTabla"} =>
        \A j \in 1..Len(last.stmts) :
            last.stmts[j].via = "runQueryWithParams" =>
                /\ Len(PlaceholdersOf(last.stmts[j].text)) = Len(last.stmts[j].params)
                /\ db_type # "mysql" =>
                     Numbers(last.stmts[j].text) = FromTo(1, Len(last.stmts[j].params))

C9_Witness ==
    /\ last.op = "importarTabla"
    /\ last.args.formato = "csv"
    /\ db_type = "postgresql"
    /\ Len(last.stmts) = 2
    /\ Len(last.stmts[2].params) = 2
    /\ Numbers(last.stmts[2].text) = <<1, 2>>

\* C10: columnasDeTabla on a table that does not exist answers, on both
\* engines, with the non-error envelope for an empty column sequence:
\* getTableColumns does not raise.
C10_AbsentTableIsEmpty ==
    (/\ last.op = "columnasDeTabla"
     /\ ~TableExists(last.args.tabla)
     \* PostgreSQL's own catalog relation is there
     /\ ~(db_type # "mysql" /\ last.args.tabla = RelacionSistema))
        => last.env = Ok("La tabla no tiene columnas.")

C10_Witness ==
    /\ last.op = "columnasDeTabla"
    /\ db_type = "mysql"
    /\ last.args.tabla = "t2"
    /\ ~last.args.falla
    /\ ~TableExists("t2")
    /\ last.env = Ok("La tabla no tiene columnas.")
    /\ Len(last.stmts) = 1

IsCreateTable(stmt) == Verb(stmt) = "CREATE TABLE"

\* C11: with the driver answering every query, crearTabla for an absent table
\* and at least one column issues exactly one CREATE TABLE and answers
\* 'Tabla creada exitosamente.', and crearTabla for a table that exists
\* answers 'La tabla ya existe.' and issues no CREATE TABLE.
C11_CreateThenAlreadyExists ==
    [][(/\ last.op = "none"
        /\ last'.op = "crearTabla"
        /\ last'.args.nombreTabla \in NombresTabla
        /\ Len(last'.args.columnas) > 0
        /\ ~last'.args.fallaProbe
        /\ ~last'.args.falla)
       => LET n == last'.args.nombreTabla
              ddl == SelectSeq(last'.stmts, IsCreateTable)
          IN IF tables[n].exists
             THEN last'.env = Ok("La tabla ya existe.") /\ Len(ddl) = 0
             ELSE /\ last'.env = Ok("Tabla creada exitosamente.")
                  /\ Len(ddl) = 1
                  /\ tables'[n].exists]_vars

\* C12: no invocation ends with an exception leaving its handler; a failure
\* while executing against the database comes back as an error envelope.
C12_NoExceptionLeavesHandler ==
    last.op # "none" => last.env # Rejected

IsColumnQuery(stmt) ==
    Verb(stmt) \in {"SHOW COLUMNS FROM",
                    "SELECT column_name, data_type FROM information_schema.columns WHERE table_name ="}

\* C20: with the driver answering every query, listing a database of N tables
\* (N >= 0) returns N schemas, each with its table's columns, and issues 1 + N
\* catalog queries: the table-name query first, then one column query per table.
C20_SchemaOfNTables ==
    (last.op = "listarTablas" /\ last.args.failAt = 0)
    => LET N == Len(ExistingTables) IN
       /\ last.env # Rejected
       /\ Len(last.schema) = N
       /\ \A i \in 1..Len(last.schema) :
             /\ last.schema[i].name = ExistingTables[i]
             /\ last.schema[i].columns = tables[ExistingTables[i]].cols
       /\ Len(last.stmts) = 1 + N
       /\ ~IsColumnQuery(last.stmts[1])
       /\ \A i \in 2..Len(last.stmts) : IsColumnQuery(last.stmts[i])

\* C15: a successful crudTabla update or delete reports the number of rows its
\* filter matched, on mysql and on PostgreSQL alike.
C15_AffectedRowsReported ==
    (/\ last.op = "crudTabla"
     /\ last.args.accion \in {"update", "delete"}
     /\ ~last.env.isError)
    => /\ last.env.text = (IF last.args.accion = "update"
                           THEN "Registros actualizados: "
                           ELSE "Registros eliminados: ")
       /\ last.env.n = last.matched

\* C13: once closePool() has been called, a second call does not call end()
\* on the pool again and does not fail.
C13_ClosePoolIdempotent ==
    proc.closeCalls >= 2 => (proc.endCalls <= 1 /\ ~proc.closeFailed)

\* C14: a runQuery / runQueryWithParams call that begins after closePool() has
\* completed fails with the pool-closed error, and its statement is not
\* executed by the database.
C14_NoQueryAfterClose ==
    proc.result.closed => (proc.result.outcome = "pool-closed" /\ ~proc.result.ran)

C14_Witness ==
    /\ proc.closeDone
    /\ proc.result.closed
    /\ proc.result.via = "runQueryWithParams"
    /\ proc.result.outcome = "pool-closed"

\* C16: with DB_TYPE = mysql or DB_TYPE = postgres and a usable port, startup
\* builds the pool of the corresponding driver and does not abort.
C16_DocumentedEnginesStart ==
    (/\ db_type \in {"mysql", "postgres"}
     /\ ~PortMissing(proc.DB_PORT)
     /\ proc.phase # "boot")
    => /\ proc.phase # "aborted"
       /\ proc.pool # "none"
       /\ proc.engine = (IF db_type = "mysql" THEN "mysql" ELSE "pg")

\* C17: with DB_PORT unset or empty, startup aborts on the port before the
\* pool is built and before any tool is registered, and no query is ever served.
C17_MissingPortAborts ==
    proc.DB_PORT \in {"undefined", ""}
    => /\ proc.pool = "none"
       /\ ~proc.registered
       /\ ~proc.transport
       /\ proc.result = NoResult
       /\ proc.phase \in {"boot", "aborted"}
       /\ proc.phase = "aborted" => proc.fatal = "DB_PORT"

C17_Witness ==
    /\ proc.DB_PORT = "undefined"
    /\ proc.phase = "aborted"
    /\ proc.fatal = "DB_PORT"

\* C18: after the connectivity probe has failed, the failure is logged and,
\* until a signal starts cleanup, the process keeps serving: the transport
\* stays connected and a query can still be run.
C18_ProbeFailureIsNotFatal ==
    (proc.probe = "failed" /\ \A s \in Signals : proc.cleanup[s] = "idle")
    => /\ proc.logged
       /\ proc.phase = "serving"
       /\ proc.transport
       /\ ENABLED runQuery

C18_Witness ==
    /\ proc.probe = "failed"
    /\ proc.result.probe = "failed"
    /\ proc.result.transport
    /\ proc.result.outcome = "rows"

\* C19: whenever testConnection is not between its acquire and its release,
\* no connection is checked out of the pool.
C19_ConnectionsReleased ==
    proc.probe # "pinging" => proc.checkedOut = 0

IsInsert(stmt) == Verb(stmt) = "INSERT INTO"

\* C21: importing, as JSON, the text of a JSON export of the whole table T
\* into a table of the same columns issues one INSERT per exported row,
\* reports that many rows, and stores for every exported row a row of equal
\* values under the same column names.
C21_ExportImportRoundTrip ==
    (/\ last.op = "importarTabla"
     /\ "exportado" \in DOMAIN last
     /\ last.completa
     /\ tables[last.args.tabla] = tables[last.origen])
    => /\ Len(SelectSeq(last.stmts, IsInsert)) = Len(last.exportado)
       /\ ~last.env.isError
       /\ last.env.n = Len(last.exportado)
       /\ last.stored = last.exportado

\* the argument checks at the head of each handler, on the arguments as sent
ValidationFails(c) ==
    CASE c.op = "crearTabla" -> c.args.nombreTabla = "" \/ Len(c.args.columnas) = 0
      [] c.op = "agregarColumna" ->
            c.args.tabla = "" \/ c.args.columna = "" \/ c.args.columna = "e-mail"
      [] c.op = "insertarDatos" -> Len(c.args.datos) = 0
      [] c.op = "crudTabla" ->
            \/ c.args.tabla = ""
            \/ (c.args.accion \in {"create", "update"} /\ c.args.datos.kind # "object")
            \/ (/\ c.args.accion \in {"update", "delete"}
                /\ (c.args.filtro.kind # "object" \/ Len(c.args.filtro.keys) = 0))
      [] c.op = "renombrarTabla" -> c.args.nombreActual = "" \/ c.args.nuevoNombre = ""
      [] c.op = "renombrarColumna" ->
            \/ c.args.tabla = "" \/ c.args.columnaActual = ""
            \/ c.args.nuevoNombre = "" \/ c.args.tipo = ""
      [] c.op = "cambiarTipoColumna" ->
            c.args.tabla = "" \/ c.args.columna = "" \/ c.args.nuevoTipo = ""
      [] c.op = "eliminarTabla" -> c.args.nombreTabla = ""
      [] c.op = "eliminarColumna" -> c.args.tabla = "" \/ c.args.columna = ""
      [] c.op \in {"eliminarRestriccionUnica", "eliminarClaveForanea"} ->
            c.args.tabla = "" \/ c.args.nombre = ""
      [] c.op = "agregarRestriccionUnica" -> c.args.tabla = "" \/ Len(c.args.columnas) = 0
      [] c.op = "agregarClaveForanea" -> c.args.tabla = "" \/ c.args.tablaReferencia = ""
      [] OTHER -> FALSE

\* C22: an invocation that fails its handler's argument checks answers with an
\* error envelope and hands nothing to the pool, neither a statement nor a
\* catalog query.
C22_ValidationBeforePool ==
    ValidationFails(last) => (last.env.isError /\ last.stmts = <<>>)

C22_Witness ==
    /\ last.op = "agregarColumna"
    /\ last.args.tabla = "t1"
    /\ last.args.columna = "e-mail"
    /\ last.env.isError
    /\ last.stmts = <<>>

HasToken(text, tok) == \E i \in 1..Len(text) : text[i] = tok

\* C23: crudTabla read issues one SELECT; it has a WHERE clause exactly when
\* the filter has a key.  Without one the value vector is empty; with f keys
\* the clause is the f conditions `key = placeholder` joined by AND, in key
\* order, bound to the f filter values in that order.
C23_ReadWhereClause ==
    (/\ last.op = "crudTabla"
     /\ last.args.accion = "read"
     /\ last.args.tabla # "")
    => LET keys == IF last.args.filtro.kind = "object" THEN last.args.filtro.keys ELSE <<>>
           vals == IF last.args.filtro.kind = "object" THEN last.args.filtro.vals ELSE <<>>
           f == Len(keys)
           stmt == last.stmts[1]
       IN /\ Len(last.stmts) = 1
          /\ Verb(stmt) = "SELECT * FROM"
          /\ stmt.text[2].s = last.args.tabla
          /\ HasToken(stmt.text, Kw("WHERE")) <=> f >= 1
          /\ stmt.params = vals
          /\ f = 0 => Len(stmt.text) = 2
          /\ f >= 1 =>
               /\ Len(stmt.text) = 3 + 4 * f - 1
               /\ stmt.text[3] = Kw("WHERE")
               /\ \A i \in 1..f :
                    /\ stmt.text[4 * i].t \in {"backtick", "dquote"}
                    /\ stmt.text[4 * i].s = keys[i]
                    /\ stmt.text[4 * i + 1] = Kw("=")
                    /\ IsPlaceholder(stmt.text[4 * i + 2])
                    /\ db_type # "mysql" => stmt.text[4 * i + 2].n = i
                    /\ i < f => stmt.text[4 * i + 3] = Kw("AND")

C23_Witness ==
    /\ last.op = "crudTabla"
    /\ last.args.accion = "read"
    /\ last.args.filtro.kind = "undefined"
    /\ ~last.env.isError
    /\ ~HasToken(last.stmts[1].text, Kw("WHERE"))
    /\ last.stmts[1].params = <<>>

IsQuoted(tok) == tok.t \in {"backtick", "dquote"}

\* the columns an INSERT lists: its quoted names after the table name
ListedCols(stmt) ==
    LET q == SelectSeq(Tail(Tail(stmt.text)), IsQuoted) IN [i \in 1..Len(q) |-> q[i].s]

\* the input record behind the i-th statement of a finished invocation
RecordOf(c, i) ==
    CASE c.op = "crudTabla" -> c.args.datos
      [] c.op = "insertarDatos" -> c.args.datos[i]
      [] OTHER -> ImportRegistros(c.args.formato, c.args.datos, c.args.columnas)[i]

\* C24: in every INSERT of crudTabla create, insertarDatos and importarTabla
\* the i-th bound value is the input record's value for the i-th listed
\* column, and the placeholders are numbered from 1 (offset 0).
C24_InsertColumnsMatchValues ==
    (\/ (last.op = "crudTabla" /\ last.args.accion = "create")
     \/ last.op \in {"insertarDatos", "importarTabla"})
    => \A i \in 1..Len(last.stmts) :
          LET stmt == last.stmts[i]
              cols == ListedCols(stmt)
          IN /\ IsInsert(stmt)
             /\ Len(stmt.params) = Len(cols)
             /\ \A j \in 1..Len(cols) : stmt.params[j] = Get(RecordOf(last, i), cols[j])
             /\ Len(PlaceholdersOf(stmt.text)) = Len(cols)
             /\ db_type # "mysql" => Numbers(stmt.text) = FromTo(1, Len(cols))

C24_Witness ==
    /\ last.op = "importarTabla"
    /\ last.args.formato = "json"
    /\ last.args.columnas = <<"email", "id">>
    /\ ~last.env.isError
    /\ Len(last.stmts) >= 1
    /\ RecordOf(last, 1) = Obj(<<"id", "email">>, <<"v1", "v2">>)
    /\ ListedCols(last.stmts[1]) = <<"email", "id">>
    /\ last.stmts[1].params = <<"v2", "v1">>

DDLOps == {"crearTabla", "agregarColumna", "eliminarColumna", "renombrarTabla",
           "renombrarColumna", "cambiarTipoColumna", "agregarRestriccionUnica",
           "eliminarRestriccionUnica", "agregarClaveForanea", "eliminarClaveForanea",
           "eliminarTabla"}

SeqToSet(q) == {q[i] : i \in 1..Len(q)}

\* the table, column and constraint names among the arguments of a DDL call
NameArgs(c) ==
    CASE c.op = "crearTabla" -> {c.args.nombreTabla} \cup SeqToSet(c.args.columnas)
      [] c.op = "agregarColumna" -> {c.args.tabla, c.args.columna}
      [] c.op = "eliminarColumna" -> {c.args.tabla, c.args.columna}
      [] c.op = "renombrarTabla" -> {c.args.nombreActual, c.args.nuevoNombre}
      [] c.op = "renombrarColumna" -> {c.args.tabla, c.args.columnaActual, c.args.nuevoNombre}
      [] c.op = "cambiarTipoColumna" -> {c.args.tabla, c.args.columna}
      [] c.op = "agregarRestriccionUnica" ->
            {c.args.tabla} \cup SeqToSet(c.args.columnas) \cup ({c.args.nombre} \ {""})
      [] c.op \in {"eliminarRestriccionUnica", "eliminarClaveForanea"} ->
            {c.args.tabla, c.args.nombre}
      [] c.op = "agregarClaveForanea" ->
            {c.args.tabla, c.args.tablaReferencia} \cup SeqToSet(c.args.columnas)
            \cup SeqToSet(c.args.columnasReferencia) \cup ({c.args.nombre} \ {""})
      [] OTHER -> {c.args.nombreTabla}

\* the phrase the engine wants from a call of the four tools that have two
EnginePhrase(c) ==
    CASE c.op = "renombrarColumna" -> IF db_type = "mysql" THEN "CHANGE" ELSE "RENAME COLUMN"
      [] c.op = "cambiarTipoColumna" -> IF db_type = "mysql" THEN "MODIFY COLUMN" ELSE "ALTER COLUMN"
      [] c.op = "eliminarRestriccionUnica" -> IF db_type = "mysql" THEN "DROP INDEX" ELSE "DROP CONSTRAINT"
      [] c.op = "eliminarClaveForanea" -> IF db_type = "mysql" THEN "DROP FOREIGN KEY" ELSE "DROP CONSTRAINT"
      [] OTHER -> ""

ViaRunQuery(stmt) == stmt.via = "runQuery"

\* one statement through runQuery, no bound values, names in the engine's
\* quotes, the engine's phrase
OneDDLStatement(c) ==
    LET ddl == SelectSeq(c.stmts, ViaRunQuery) IN
    /\ Len(ddl) = 1
    /\ ddl[1].params = <<>>
    /\ ~HasToken(ddl[1].text, [t |-> "ph", s |-> "?", n |-> 0])
    /\ Len(PlaceholdersOf(ddl[1].text)) = 0
    /\ {tok.s : tok \in {x \in SeqToSet(ddl[1].text) : IsQuoted(x)}} = NameArgs(c)
    /\ \A i \in 1..Len(ddl[1].text) :
          IsQuoted(ddl[1].text[i])
          => ddl[1].text[i].t = (IF db_type = "mysql" THEN "backtick" ELSE "dquote")
    /\ EnginePhrase(c) # "" => HasToken(ddl[1].text, Kw(EnginePhrase(c)))

\* C25 as stated: every DDL call that passes its argument checks issues
\* exactly one such statement.
C25_EveryDDLCallIssuesOne ==
    (last.op \in DDLOps /\ ~ValidationFails(last)) => OneDDLStatement(last)

\* C25: every DDL call that passes its argument checks issues exactly one
\* statement through runQuery, without bound values, with every name argument
\* in the engine's quotes and the engine's phrase; except that crearTabla
\* issues none when it answers that the table already exists.
C25_DDLStatementShape ==
    (last.op \in DDLOps /\ ~ValidationFails(last))
    => IF last.op = "crearTabla" /\ last.env = Ok("La tabla ya existe.")
       THEN Len(SelectSeq(last.stmts, ViaRunQuery)) = 0
       ELSE OneDDLStatement(last)

C25_Witness ==
    /\ last.op = "renombrarColumna"
    /\ db_type = "mysql"
    /\ ~last.env.isError
    /\ HasToken(last.stmts[1].text, Kw("CHANGE"))
    /\ HasToken(last.stmts[1].text, [t |-> "backtick", s |-> last.args.nuevoNombre, n |-> 0])

\* C26: when the column catalog query fails for a reason other than the table
\* being absent, columnasDeTabla answers with an error envelope and crearTabla
\* does not go on to issue a CREATE TABLE.
C26_DriverFailureIsNotAbsence ==
    /\ (last.op = "columnasDeTabla" /\ last.args.falla) => last.env.isError
    /\ (last.op = "crearTabla" /\ last.args.fallaProbe)
       => \A i \in 1..Len(last.stmts) : ~IsCreateTable(last.stmts[i])

\* C27: every text consultarSQL forwards is a single SELECT statement, one
\* with a further statement after a ';' is not forwarded, and no consultarSQL
\* invocation changes the tables.
C27_ReadOnlyQueryIsSingleSelect ==
    [][last'.op = "consultarSQL"
       => /\ tables' = tables
          /\ \A i \in 1..Len(last'.stmts) : SecondStatement(last'.stmts[i].raw) = <<>>]_vars

\* C28: of two crearTabla requests in flight together for the same table name,
\* absent when they arrived, at most one has issued a CREATE TABLE.
C28_OneCreateForConcurrentRequests ==
    \A r1, r2 \in Requests :
        (/\ r1 # r2
         /\ reqs[r1].pc # "idle" /\ reqs[r2].pc # "idle"
         /\ reqs[r1].nombreTabla = reqs[r2].nombreTabla)
        => ~(/\ \E i \in 1..Len(reqs[r1].stmts) : IsCreateTable(reqs[r1].stmts[i])
             /\ \E i \in 1..Len(reqs[r2].stmts) : IsCreateTable(reqs[r2].stmts[i]))

\* the records an insertarDatos / importarTabla call loops over
RegistrosDe(c) ==
    IF c.op = "insertarDatos" THEN c.args.datos
    ELSE ImportRegistros(c.args.formato, c.args.datos, c.args.columnas)

\* the call got as far as its for...of loop
LoopEntered(c) ==
    IF c.op = "insertarDatos" THEN Len(c.args.datos) > 0
    ELSE /\ ~ImportParseThrows(c.args.formato, c.args.datos)
         /\ (c.args.formato = "json" => c.args.datos.isArray)

\* C29: importarTabla and insertarDatos over k records issue their INSERTs in
\* input order and stop at the first one that fails: when the j-th fails, j
\* INSERTs were issued, the first j-1 records are stored, and the answer is an
\* error; when none fails, k are stored and the reported count is k.
C29_StopsAtFirstFailure ==
    (last.op \in {"insertarDatos", "importarTabla"} /\ LoopEntered(last))
    => LET R == RegistrosDe(last)
           k == Len(R)
           n == Len(last.stmts)
           m == Len(last.stored)
       IN /\ n <= k
          /\ \A i \in 1..n :
                /\ IsInsert(last.stmts[i])
                /\ last.stmts[i].params =
                      [j \in 1..Len(ListedCols(last.stmts[i])) |->
                          Get(R[i], ListedCols(last.stmts[i])[j])]
          /\ m <= n
          /\ \A i \in 1..m :
                /\ last.stored[i].keys = ListedCols(last.stmts[i])
                /\ last.stored[i].vals =
                      [j \in 1..Len(last.stmts[i].params) |-> StoredValue(last.stmts[i].params[j])]
          /\ IF last.env.isError
             THEN \/ m = n - 1
                  \/ (m = n /\ n < k /\ BuildThrows(R[n + 1]))
             ELSE n = k /\ m = k /\ last.env.n = k

C29_Witness ==
    /\ last.op = "insertarDatos"
    /\ Len(last.args.datos) = 2
    /\ last.args.failAt = 2
    /\ last.env.isError
    /\ Len(last.stmts) = 2
    /\ Len(last.stored) = 1
    /\ last.stored[1] = last.args.datos[1]

\* C30: columnasDeTabla lists columns for a name only if listarTablas shows a
\* table of that name, and then it lists that entry's columns.
C30_ListColumnsAgreesWithListTables ==
    (last.op = "columnasDeTabla" /\ Len(last.cols) > 0)
    => LET listed == getSchema(0) IN
       /\ ~listed.threw
       /\ \E i \in 1..Len(listed.schema) :
             /\ listed.schema[i].name = last.args.tabla
             /\ listed.schema[i].columns = last.cols

=============================================================================
